---- MODULE Spec2Model ----
(***************************************************************************)
(* A model of the natural-language-to-SQL assistant: the response decoder  *)
(* (app/services/llm.py), the lexical SQL validator and the query pipeline *)
(* (app/routers/query.py).                                                 *)
(*                                                                         *)
(* Python strings are sequences of one-character strings, so that upper(), *)
(* strip(), rstrip(';'), startswith(), the substring test and the regular  *)
(* expressions are computed character by character.                        *)
(***************************************************************************)
EXTENDS Integers, Sequences, FiniteSets, TLC

(***************************************************************************)
(* Bounds of the model.                                                    *)
(***************************************************************************)
\* longest SQL text, in fragments of SqlFrags, given to the validator
MaxSqlFrags == 3
\* longest model response, in fragments, given to the three decoders
MaxRespFrags == 3
\* longest SQL text, in fragments, a model response of the pipeline carries
MaxPipeFrags == 2
\* most rows the table of the store holds
MaxRows == 3
\* the readings of time.perf_counter(), in seconds, are 0..MaxClock
MaxClock == 1
\* most rows a table of the store holds when the statistics are studied
MaxTableRows == 3
\* most calls of get_schema_as_text on one store
MaxTextCalls == 2
\* rows of a table of the store a summarize request reads
MaxSumRows == 1
\* threads of the server's pool that run get_db and get_llm
NThreads == 2
\* calls of get_llm_service and get_database_service, and of
\* reset_llm_service
MaxCalls == 3
MaxResets == 1
\* the fragments of a statement passed to extract_tables_from_sql
MaxExtractFrags == 4
\* operations of DatabaseService begun, and the tables and columns of the
\* store they read
MaxOps == 2
ConnTables == 1
ConnColumns == 1
\* writes of other connections during a summarize request, and the rows
\* the table may hold
MaxWrites == 2
MaxWriterRows == 2

(***************************************************************************)
(* Program constants.                                                      *)
(***************************************************************************)
\* QueryRequest.limit: Field(ge=1, le=1000)
LimitMin == 1
LimitMax == 1000

\* SummarizeRequest.sample_size: ge and le
SampleSizeMin == 1
SampleSizeMax == 20

(***************************************************************************)
(* Python str operations.                                                  *)
(***************************************************************************)
LowerCase == <<"a","b","c","d","e","f","g","h","i","j","k","l","m",
               "n","o","p","q","r","s","t","u","v","w","x","y","z">>
UpperCase == <<"A","B","C","D","E","F","G","H","I","J","K","L","M",
               "N","O","P","Q","R","S","T","U","V","W","X","Y","Z">>
Digits == <<"0","1","2","3","4","5","6","7","8","9">>
\* the characters str.strip() removes
Whitespace == {" ", "\n", "\t"}

\* str.upper(), one character
upper_char(c) ==
  IF \E i \in 1..Len(LowerCase) : LowerCase[i] = c
  THEN UpperCase[CHOOSE i \in 1..Len(LowerCase) : LowerCase[i] = c]
  ELSE c

\* str.upper()
upper(s) == [i \in 1..Len(s) |-> upper_char(s[i])]

\* str.lstrip()
RECURSIVE lstrip(_)
lstrip(s) ==
  IF s # <<>> /\ Head(s) \in Whitespace THEN lstrip(Tail(s)) ELSE s

\* str.rstrip(chars)
RECURSIVE rstrip(_, _)
rstrip(s, chars) ==
  IF s # <<>> /\ s[Len(s)] \in chars
  THEN rstrip(SubSeq(s, 1, Len(s) - 1), chars)
  ELSE s

\* str.strip()
strip(s) == rstrip(lstrip(s), Whitespace)

\* str.startswith(prefix)
startswith(s, prefix) ==
  /\ Len(prefix) <= Len(s)
  /\ SubSeq(s, 1, Len(prefix)) = prefix

\* the substring test `sub in s`
contains(s, sub) ==
  \E i \in 1..(Len(s) - Len(sub) + 1) : SubSeq(s, i, i + Len(sub) - 1) = sub

\* the string w occurs in s at index i
has_at(s, i, w) ==
  /\ i + Len(w) - 1 <= Len(s)
  /\ SubSeq(s, i, i + Len(w) - 1) = w

\* str(n) of a non-negative int, as the f-string renders request.limit
RECURSIVE int_to_str(_)
int_to_str(n) ==
  IF n < 10 THEN <<Digits[n + 1]>>
  ELSE int_to_str(n \div 10) \o <<Digits[(n % 10) + 1]>>

\* the keywords the validator looks for
SELECT == <<"S","E","L","E","C","T">>
LIMIT == <<"L","I","M","I","T">>

\* the concatenation of a sequence of strings
RECURSIVE Flatten(_)
Flatten(ss) == IF ss = <<>> THEN <<>> ELSE Head(ss) \o Flatten(Tail(ss))

\* every concatenation of at most n fragments of the set F
Texts(F, n) == UNION { { Flatten(fs) : fs \in [1..k -> F] } : k \in 0..n }

(***************************************************************************)
(* SQL safety validator: query.py, query_data, lines 93-107.               *)
(***************************************************************************)
\* " LIMIT <n>" as line 107 appends it
LimitSuffix(n) == <<" ">> \o LIMIT \o <<" ">> \o int_to_str(n)

\* mutant: the limit is appended whatever the SQL holds
validate_AlwaysAppend(sql, limit) ==
  LET sql_upper == strip(upper(sql)) IN
  IF ~startswith(sql_upper, SELECT)
  THEN [ ok |-> FALSE, error |-> "INVALID_SQL_TYPE", sql |-> sql ]
  ELSE [ ok |-> TRUE, error |-> "",
         sql |-> rstrip(sql, {";"}) \o LimitSuffix(limit) ]

\* mutant: the SELECT test is skipped
validate_NoSelectCheck(sql, limit) ==
  LET sql_upper == strip(upper(sql)) IN
  [ ok |-> TRUE,
    error |-> "",
    sql |-> IF ~contains(sql_upper, LIMIT)
            THEN rstrip(sql, {";"}) \o LimitSuffix(limit)
            ELSE sql ]

\* the validation step: the generated SQL (a str) and request.limit
validate(sql, limit) ==
  LET sql_upper == strip(upper(sql)) IN
  IF ~startswith(sql_upper, SELECT)
  THEN [ ok |-> FALSE, error |-> "INVALID_SQL_TYPE", sql |-> sql ]
  ELSE [ ok |-> TRUE, error |-> "",
         sql |-> IF ~contains(sql_upper, LIMIT)
                 THEN rstrip(sql, {";"}) \o LimitSuffix(limit)
                 ELSE sql ]


(***************************************************************************)
(* Python values, as json.loads builds them: a record of a type tag t and  *)
(* a payload v.                                                            *)
(***************************************************************************)
PyStr(s) == [ t |-> "str", v |-> s ]
PyInt(ds) == [ t |-> "int", v |-> ds ]
PyBool(b) == [ t |-> "bool", v |-> <<b>> ]
PyList(xs) == [ t |-> "list", v |-> xs ]
\* a dict: its items in insertion order, each [k |-> key, val |-> value]
PyDict(items) == [ t |-> "dict", v |-> items ]
PyNone == [ t |-> "None", v |-> <<>> ]

\* Python truth value: "", 0, False, None, [] and {} are false
truthy(x) ==
  CASE x.t = "None" -> FALSE
    [] x.t = "bool" -> x.v[1]
    [] x.t = "int" -> \E i \in 1..Len(x.v) : x.v[i] # "0"
    [] OTHER -> x.v # <<>>

\* dict.get(key, default)
dict_get(d, key, default) ==
  LET hits == { i \in 1..Len(d.v) : d.v[i].k = key } IN
  IF hits = {} THEN default
  ELSE d.v[CHOOSE i \in hits : \A j \in hits : j <= i].val

\* d[key] = val, as the JSON decoder fills a dict: a repeated key keeps its
\* place and takes the later value
dict_set(items, key, val) ==
  IF \E i \in 1..Len(items) : items[i].k = key
  THEN [ i \in 1..Len(items) |->
           IF items[i].k = key THEN [ k |-> key, val |-> val ] ELSE items[i] ]
  ELSE Append(items, [ k |-> key, val |-> val ])

\* dict.pop(key, None)
dict_pop(d, key) ==
  PyDict(SelectSeq(d.v, LAMBDA it : it.k # key))

(***************************************************************************)
(* json.loads.  One element of a text may stand for a run of characters    *)
(* too long to write out: DeepArray is 100000 "[" followed by 100000 "]",  *)
(* a well-formed JSON value on which the decoder exhausts the interpreter's*)
(* recursion limit and raises RecursionError, which is no JSONDecodeError. *)
(***************************************************************************)
DeepArray == "[[..]]"

JsonWhitespace == {" ", "\n", "\t", "\r"}

IsDigit(c) == \E i \in 1..Len(Digits) : Digits[i] = c

\* the first index >= i of s that holds no JSON whitespace
RECURSIVE skip_ws(_, _)
skip_ws(s, i) ==
  IF i <= Len(s) /\ s[i] \in JsonWhitespace THEN skip_ws(s, i + 1) ELSE i

\* the index of the quote that closes the string opened before index i;
\* 0 when the string is unterminated or holds a control character
RECURSIVE string_end(_, _)
string_end(s, i) ==
  IF i > Len(s) THEN 0
  ELSE IF s[i] = "\"" THEN i
  ELSE IF s[i] \in {"\n", "\t", "\r"} THEN 0
  ELSE string_end(s, i + 1)

\* the index after the run of digits that starts at i
RECURSIVE digits_end(_, _)
digits_end(s, i) ==
  IF i <= Len(s) /\ IsDigit(s[i]) THEN digits_end(s, i + 1) ELSE i

\* parse results: st is "ok", "JSONDecodeError" or "RecursionError"
ParseOk(val, next) == [ st |-> "ok", val |-> val, next |-> next ]
ParseErr(st) == [ st |-> st, val |-> PyNone, next |-> 0 ]

RECURSIVE parse_value(_, _)
RECURSIVE parse_members(_, _, _)
RECURSIVE parse_elements(_, _, _)

\* the members of an object from index i, which holds the quote of a key
parse_members(s, i, items) ==
  IF i > Len(s) \/ s[i] # "\"" THEN ParseErr("JSONDecodeError")
  ELSE
    LET e == string_end(s, i + 1) IN
    IF e = 0 THEN ParseErr("JSONDecodeError")
    ELSE
      LET key == SubSeq(s, i + 1, e - 1)
          c == skip_ws(s, e + 1)
      IN
      IF c > Len(s) \/ s[c] # ":" THEN ParseErr("JSONDecodeError")
      ELSE
        LET r == parse_value(s, skip_ws(s, c + 1)) IN
        IF r.st # "ok" THEN r
        ELSE
          LET n == skip_ws(s, r.next)
              items2 == dict_set(items, key, r.val)
          IN
          IF n > Len(s) THEN ParseErr("JSONDecodeError")
          ELSE IF s[n] = "}" THEN ParseOk(PyDict(items2), n + 1)
          ELSE IF s[n] = "," THEN parse_members(s, skip_ws(s, n + 1), items2)
          ELSE ParseErr("JSONDecodeError")

\* the elements of an array from index i, which holds the start of a value
parse_elements(s, i, xs) ==
  LET r == parse_value(s, i) IN
  IF r.st # "ok" THEN r
  ELSE
    LET n == skip_ws(s, r.next)
        xs2 == Append(xs, r.val)
    IN
    IF n > Len(s) THEN ParseErr("JSONDecodeError")
    ELSE IF s[n] = "]" THEN ParseOk(PyList(xs2), n + 1)
    ELSE IF s[n] = "," THEN parse_elements(s, skip_ws(s, n + 1), xs2)
    ELSE ParseErr("JSONDecodeError")

\* the JSON value that starts at index i
parse_value(s, i) ==
  IF i > Len(s) THEN ParseErr("JSONDecodeError")
  ELSE IF s[i] = "\"" THEN
    LET e == string_end(s, i + 1) IN
    IF e = 0 THEN ParseErr("JSONDecodeError")
    ELSE ParseOk(PyStr(SubSeq(s, i + 1, e - 1)), e + 1)
  ELSE IF s[i] = "{" THEN
    LET n == skip_ws(s, i + 1) IN
    IF n <= Len(s) /\ s[n] = "}" THEN ParseOk(PyDict(<<>>), n + 1)
    ELSE parse_members(s, n, <<>>)
  ELSE IF s[i] = "[" THEN
    LET n == skip_ws(s, i + 1) IN
    IF n <= Len(s) /\ s[n] = "]" THEN ParseOk(PyList(<<>>), n + 1)
    ELSE parse_elements(s, n, <<>>)
  ELSE IF s[i] = DeepArray THEN ParseErr("RecursionError")
  ELSE IF s[i] = "0" THEN ParseOk(PyInt(<<"0">>), i + 1)
  ELSE IF IsDigit(s[i]) THEN
    LET e == digits_end(s, i) IN ParseOk(PyInt(SubSeq(s, i, e - 1)), e)
  ELSE IF has_at(s, i, <<"n","u","l","l">>) THEN ParseOk(PyNone, i + 4)
  ELSE IF has_at(s, i, <<"t","r","u","e">>) THEN ParseOk(PyBool(TRUE), i + 4)
  ELSE IF has_at(s, i, <<"f","a","l","s","e">>)
    THEN ParseOk(PyBool(FALSE), i + 5)
  ELSE ParseErr("JSONDecodeError")

\* json.loads(s): [st, val]; trailing non-whitespace is "Extra data"
json_loads(s) ==
  LET r == parse_value(s, skip_ws(s, 1)) IN
  IF r.st # "ok" THEN [ st |-> r.st, val |-> PyNone ]
  ELSE IF skip_ws(s, r.next) <= Len(s)
    THEN [ st |-> "JSONDecodeError", val |-> PyNone ]
  ELSE [ st |-> "ok", val |-> r.val ]

(***************************************************************************)
(* The regular expressions of llm.py.  A match is [found, lo, hi]: the     *)
(* matched span is SubSeq(s, lo, hi).                                      *)
(***************************************************************************)
NoMatch == [ found |-> FALSE, lo |-> 0, hi |-> 0 ]
Match(lo, hi) == [ found |-> TRUE, lo |-> lo, hi |-> hi ]
group(s, m) == SubSeq(s, m.lo, m.hi)

\* the least element of a non-empty set of integers
Min(S) == CHOOSE x \in S : \A y \in S : x <= y
Max(S) == CHOOSE x \in S : \A y \in S : y <= x

\* re.search(r'\{[^{}]*\}', s, re.DOTALL): the leftmost "{" whose next
\* brace is a "}"
search_object_flat(s) ==
  LET braces(i) == { j \in (i + 1)..Len(s) : s[j] \in {"{", "}"} }
      starts == { i \in 1..Len(s) :
                    /\ s[i] = "{"
                    /\ braces(i) # {}
                    /\ s[Min(braces(i))] = "}" }
  IN IF starts = {} THEN NoMatch
     ELSE Match(Min(starts), Min(braces(Min(starts))))

\* re.search(r'\{.*\}', s, re.DOTALL): from the first "{" to the last "}"
search_object_greedy(s) ==
  LET opens == { i \in 1..Len(s) : s[i] = "{" } IN
  IF opens = {} THEN NoMatch
  ELSE
    LET closes == { j \in (Min(opens) + 1)..Len(s) : s[j] = "}" } IN
    IF closes = {} THEN NoMatch ELSE Match(Min(opens), Max(closes))

\* re.search(r'(SELECT[^;]+;?)', s, re.IGNORECASE | re.DOTALL): the leftmost
\* SELECT, in any letter case, that a character other than ";" follows; the
\* span runs to the first ";" after it, inclusive, or to the end of s
search_select(s) ==
  LET u == upper(s)
      starts == { i \in 1..Len(s) :
                    /\ has_at(u, i, SELECT)
                    /\ i + Len(SELECT) <= Len(s)
                    /\ s[i + Len(SELECT)] # ";" }
  IN IF starts = {} THEN NoMatch
     ELSE
       LET lo == Min(starts)
           semis == { j \in (lo + Len(SELECT) + 1)..Len(s) : s[j] = ";" }
       IN Match(lo, IF semis = {} THEN Len(s) ELSE Min(semis))

(***************************************************************************)
(* Table names of a statement: explain.py, extract_tables_from_sql, lines  *)
(* 30-52.                                                                  *)
(***************************************************************************)
\* the keywords of the patterns of lines 33-38, in the order of the list
FROM == <<"F","R","O","M">>
JOIN == <<"J","O","I","N">>
INTO == <<"I","N","T","O">>
UPDATE == <<"U","P","D","A","T","E">>
TableKeywords == <<FROM, JOIN, INTO, UPDATE>>

\* the characters \s matches
RegexSpace == {" ", "\t", "\n", "\r", "\f"}

\* the characters \w matches: those of an SQL identifier or keyword
IsWordChar(c) ==
  \/ c = "_"
  \/ IsDigit(c)
  \/ \E i \in 1..Len(UpperCase) : c = UpperCase[i] \/ c = LowerCase[i]

\* the pattern kw\s+(\w+) tried at index i of s: the span of its group
match_keyword(s, i, kw) ==
  IF ~has_at(s, i, kw) THEN NoMatch
  ELSE
    LET j == i + Len(kw)
        k == Min({ n \in j..(Len(s) + 1) :
                     n = Len(s) + 1 \/ s[n] \notin RegexSpace })
        e == Min({ n \in k..(Len(s) + 1) :
                     n = Len(s) + 1 \/ ~IsWordChar(s[n]) })
    IN IF k > j /\ e > k THEN Match(k, e - 1) ELSE NoMatch

\* re.findall(kw\s+(\w+), s) from index i on: the spans of the group in the
\* matches, which are taken from left to right and do not overlap
RECURSIVE findall_keyword(_, _, _)
findall_keyword(s, i, kw) ==
  IF i > Len(s) THEN <<>>
  ELSE IF match_keyword(s, i, kw).found
       THEN <<match_keyword(s, i, kw)>>
              \o findall_keyword(s, match_keyword(s, i, kw).hi + 1, kw)
       ELSE findall_keyword(s, i + 1, kw)

\* str.find(sub): the index of the first occurrence of sub in s; 0 stands
\* for the -1 of a missing one
find(s, sub) ==
  IF contains(s, sub)
  THEN Min({ i \in 1..(Len(s) - Len(sub) + 1) : has_at(s, i, sub) })
  ELSE 0

\* the strings re.findall returns for the four patterns, lines 44-45
found_names(sql_upper) ==
  UNION { { group(sql_upper, findall_keyword(sql_upper, 1, TableKeywords[p])[n]) :
              n \in 1..Len(findall_keyword(sql_upper, 1, TableKeywords[p])) } :
          p \in 1..Len(TableKeywords) }

\* extract_tables_from_sql, lines 40-52: the set `tables`, which the
\* function returns as a list in no particular order
extract_tables_from_sql(sql) ==
  { SubSeq(sql, find(upper(sql), match),
           find(upper(sql), match) + Len(match) - 1) :
      match \in { m \in found_names(upper(sql)) : find(upper(sql), m) # 0 } }

(***************************************************************************)
(* Response decoder: LLMService.generate_sql, explain_query and            *)
(* summarize_data, from the text the provider returned.  A result is       *)
(* [raised, tier, val]: raised is "" when the function returns val, else   *)
(* the exception that leaves it; tier names the return statement reached.  *)
(***************************************************************************)
K_sql == <<"s","q","l">>
K_explanation == <<"e","x","p","l","a","n","a","t","i","o","n">>
K_components == <<"c","o","m","p","o","n","e","n","t","s">>
K_tables == <<"t","a","b","l","e","s">>
K_complexity == <<"c","o","m","p","l","e","x","i","t","y">>
K_optimization_tips ==
  <<"o","p","t","i","m","i","z","a","t","i","o","n","_","t","i","p","s">>
K_potential_issues ==
  <<"p","o","t","e","n","t","i","a","l","_","i","s","s","u","e","s">>
K_summary == <<"s","u","m","m","a","r","y">>
K_insights == <<"i","n","s","i","g","h","t","s">>

\* "Query generated from natural language"
GeneratedExplanation ==
  <<"Q","u","e","r","y"," ","g","e","n","e","r","a","t","e","d"," ",
    "f","r","o","m"," ","n","a","t","u","r","a","l"," ",
    "l","a","n","g","u","a","g","e">>
\* "Could not generate a valid SQL query"
FailedExplanation ==
  <<"C","o","u","l","d"," ","n","o","t"," ","g","e","n","e","r","a","t","e",
    " ","a"," ","v","a","l","i","d"," ","S","Q","L"," ","q","u","e","r","y">>
\* "moderate"
Moderate == <<"m","o","d","e","r","a","t","e">>

Returned(tier, val) == [ raised |-> "", tier |-> tier, val |-> val ]
Raised(exc) == [ raised |-> exc, tier |-> "none", val |-> PyNone ]

\* the try block shared by the three decoders: the parsed dict, "none" when
\* nothing matched or json.loads raised JSONDecodeError, or the exception
\* that `except json.JSONDecodeError` does not catch
structured_tier(m, response) ==
  IF ~m.found THEN [ st |-> "none", val |-> PyNone ]
  ELSE
    LET r == json_loads(group(response, m)) IN
    IF r.st = "ok" THEN r
    ELSE IF r.st = "JSONDecodeError" THEN [ st |-> "none", val |-> PyNone ]
    ELSE r

\* mutant: the regex tier is tried before the structured tier
decode_sql_RegexFirst(response) ==
  LET sql_match == search_select(response)
      j == structured_tier(search_object_flat(response), response)
  IN
  IF sql_match.found THEN
    Returned("regex",
      [ sql |-> PyStr(strip(group(response, sql_match))),
        explanation |-> PyStr(GeneratedExplanation) ])
  ELSE IF j.st = "ok" THEN
    Returned("json",
      [ sql |-> dict_get(j.val, K_sql, PyStr(<<>>)),
        explanation |->
          dict_get(j.val, K_explanation, PyStr(GeneratedExplanation)) ])
  ELSE IF j.st # "none" THEN Raised(j.st)
  ELSE
    Returned("fail",
      [ sql |-> PyStr(<<>>), explanation |-> PyStr(FailedExplanation) ])

\* mutant: the regex tier is missing
decode_sql_NoRegexTier(response) ==
  LET j == structured_tier(search_object_flat(response), response) IN
  IF j.st = "ok" THEN
    Returned("json",
      [ sql |-> dict_get(j.val, K_sql, PyStr(<<>>)),
        explanation |->
          dict_get(j.val, K_explanation, PyStr(GeneratedExplanation)) ])
  ELSE IF j.st # "none" THEN Raised(j.st)
  ELSE
    Returned("fail",
      [ sql |-> PyStr(<<>>), explanation |-> PyStr(FailedExplanation) ])

\* mutant: the structured tier ignores the object's fields
decode_sql_IgnoreFields(response) ==
  LET j == structured_tier(search_object_flat(response), response) IN
  IF j.st = "ok" THEN
    Returned("json",
      [ sql |-> PyStr(<<>>), explanation |-> PyStr(GeneratedExplanation) ])
  ELSE IF j.st # "none" THEN Raised(j.st)
  ELSE
    LET sql_match == search_select(response) IN
    IF sql_match.found THEN
      Returned("regex",
        [ sql |-> PyStr(strip(group(response, sql_match))),
          explanation |-> PyStr(GeneratedExplanation) ])
    ELSE
      Returned("fail",
        [ sql |-> PyStr(<<>>), explanation |-> PyStr(FailedExplanation) ])

\* generate_sql, lines 134-158
decode_sql(response) ==
  LET j == structured_tier(search_object_flat(response), response) IN
  IF j.st = "ok" THEN
    Returned("json",
      [ sql |-> dict_get(j.val, K_sql, PyStr(<<>>)),
        explanation |->
          dict_get(j.val, K_explanation, PyStr(GeneratedExplanation)) ])
  ELSE IF j.st # "none" THEN Raised(j.st)
  ELSE
    LET sql_match == search_select(response) IN
    IF sql_match.found THEN
      Returned("regex",
        [ sql |-> PyStr(strip(group(response, sql_match))),
          explanation |-> PyStr(GeneratedExplanation) ])
    ELSE
      Returned("fail",
        [ sql |-> PyStr(<<>>), explanation |-> PyStr(FailedExplanation) ])

\* mutant: the fallback of explain_query returns an empty explanation
decode_explain_EmptyFallback(response, include_tips) ==
  LET j == structured_tier(search_object_greedy(response), response) IN
  IF j.st = "ok" THEN
    LET result == IF ~include_tips
                  THEN dict_pop(j.val, K_optimization_tips) ELSE j.val
    IN Returned("json",
      [ explanation |-> dict_get(result, K_explanation, PyStr(<<>>)),
        components |-> dict_get(result, K_components, PyDict(<<>>)),
        tables |-> dict_get(result, K_tables, PyList(<<>>)),
        complexity |-> dict_get(result, K_complexity, PyStr(Moderate)),
        optimization_tips |->
          IF include_tips THEN dict_get(result, K_optimization_tips, PyNone)
          ELSE PyNone,
        potential_issues |-> dict_get(result, K_potential_issues, PyNone) ])
  ELSE IF j.st # "none" THEN Raised(j.st)
  ELSE
    Returned("fail",
      [ explanation |-> PyStr(<<>>),
        components |-> PyDict(<<>>),
        tables |-> PyList(<<>>),
        complexity |-> PyStr(Moderate),
        optimization_tips |-> PyNone,
        potential_issues |-> PyNone ])

\* explain_query, lines 208-237
decode_explain(response, include_tips) ==
  LET j == structured_tier(search_object_greedy(response), response) IN
  IF j.st = "ok" THEN
    LET result == IF ~include_tips
                  THEN dict_pop(j.val, K_optimization_tips) ELSE j.val
    IN Returned("json",
      [ explanation |-> dict_get(result, K_explanation, PyStr(<<>>)),
        components |-> dict_get(result, K_components, PyDict(<<>>)),
        tables |-> dict_get(result, K_tables, PyList(<<>>)),
        complexity |-> dict_get(result, K_complexity, PyStr(Moderate)),
        optimization_tips |->
          IF include_tips THEN dict_get(result, K_optimization_tips, PyNone)
          ELSE PyNone,
        potential_issues |-> dict_get(result, K_potential_issues, PyNone) ])
  ELSE IF j.st # "none" THEN Raised(j.st)
  ELSE
    Returned("fail",
      [ explanation |-> PyStr(response),
        components |-> PyDict(<<>>),
        tables |-> PyList(<<>>),
        complexity |-> PyStr(Moderate),
        optimization_tips |-> PyNone,
        potential_issues |-> PyNone ])

\* summarize_data, lines 303-318
decode_summary(response) ==
  LET j == structured_tier(search_object_greedy(response), response) IN
  IF j.st = "ok" THEN
    Returned("json",
      [ summary |-> dict_get(j.val, K_summary, PyStr(<<>>)),
        insights |-> dict_get(j.val, K_insights, PyList(<<>>)) ])
  ELSE IF j.st # "none" THEN Raised(j.st)
  ELSE
    Returned("fail",
      [ summary |-> PyStr(response), insights |-> PyList(<<>>) ])

(***************************************************************************)
(* Query executor: DatabaseService.execute_query, database.py lines        *)
(* 96-113, on a store that holds one table t of `rows` rows.  SQLite is    *)
(* modelled on the statements this model builds: it runs                   *)
(*     SELECT * FROM t [LIMIT k] [;]                                       *)
(* in any letter case and spacing, and raises on every other text (a       *)
(* syntax error, or "You can only execute one statement at a time").       *)
(***************************************************************************)
\* the length of the first word of s
RECURSIVE word_len(_)
word_len(s) ==
  IF s = <<>> \/ Head(s) \in Whitespace THEN 0 ELSE 1 + word_len(Tail(s))

\* str.split(): the words of s
RECURSIVE words(_)
words(s) ==
  LET t == lstrip(s) IN
  IF t = <<>> THEN <<>>
  ELSE LET n == word_len(t) IN
       <<SubSeq(t, 1, n)>> \o words(SubSeq(t, n + 1, Len(t)))

IsNumber(w) == w # <<>> /\ \A i \in 1..Len(w) : IsDigit(w[i])

\* int(w) of a string of digits
RECURSIVE str_to_int(_)
str_to_int(w) ==
  IF w = <<>> THEN 0
  ELSE 10 * str_to_int(SubSeq(w, 1, Len(w) - 1))
       + (CHOOSE d \in 0..9 : Digits[d + 1] = w[Len(w)])

\* SELECT * FROM T, in words
SelectAllFromT == << SELECT, <<"*">>, <<"F","R","O","M">>, <<"T">> >>

\* mutant: the first row is fetched and dropped
execute_query_DropsRow(sql, rows) ==
  [ ok |-> TRUE, rows |-> IF rows > 0 THEN rows - 1 ELSE 0 ]

\* execute_query(sql): [ok, rows]: the number of rows fetched, or ok = FALSE
\* when cursor.execute raises
execute_query(sql, rows) ==
  LET a == strip(sql)
      b == IF a # <<>> /\ a[Len(a)] = ";" THEN SubSeq(a, 1, Len(a) - 1) ELSE a
      w == words(upper(b))
  IN
  IF w = SelectAllFromT THEN [ ok |-> TRUE, rows |-> rows ]
  ELSE IF /\ Len(w) = Len(SelectAllFromT) + 2
          /\ SubSeq(w, 1, Len(SelectAllFromT)) = SelectAllFromT
          /\ w[Len(w) - 1] = LIMIT
          /\ IsNumber(w[Len(w)])
    THEN [ ok |-> TRUE,
           rows |-> IF str_to_int(w[Len(w)]) < rows
                    THEN str_to_int(w[Len(w)]) ELSE rows ]
  ELSE [ ok |-> FALSE, rows |-> 0 ]

(***************************************************************************)
(* The store: database.py, DatabaseService.                                *)
(* A store is its catalog (sqlite_master): the tables in catalog order.    *)
(* A table is [name, columns, rows], a column [name, type, notnull, pk],   *)
(* a row one value per column, a value NULL or a number.                   *)
(***************************************************************************)
NULL == [ null |-> TRUE, v |-> 0 ]
Val(n) == [ null |-> FALSE, v |-> n ]

\* the quotient num / den rounded to the nearest integer, a tie to the even
\* one, as round() rounds (den > 0; \div rounds down)
round_div(num, den) ==
  LET q == num \div den
      r == num % den
  IN IF 2 * r < den THEN q
     ELSE IF 2 * r > den THEN q + 1
     ELSE IF q % 2 = 0 THEN q ELSE q + 1

\* the sum of a sequence of numbers
RECURSIVE Sum(_)
Sum(xs) == IF xs = <<>> THEN 0 ELSE Head(xs) + Sum(Tail(xs))

\* sep.join(lines)
RECURSIVE join(_, _)
join(sep, lines) ==
  IF lines = <<>> THEN <<>>
  ELSE IF Len(lines) = 1 THEN lines[1]
  ELSE lines[1] \o sep \o join(sep, Tail(lines))

\* c * n
repeat(c, n) == [ i \in 1..n |-> c ]

\* name LIKE 'sqlite_%': "sqlite" in any letter case, one more character,
\* then anything
like_sqlite(name) ==
  /\ Len(name) >= 7
  /\ upper(SubSeq(name, 1, 6)) = <<"S","Q","L","I","T","E">>

\* the tables of the catalog a listing reports: type='table' AND name NOT
\* LIKE 'sqlite_%', in catalog order
listed(db) == SelectSeq(db, LAMBDA table : ~like_sqlite(table.name))

\* get_table_names, lines 228-236
get_table_names(db) == [ i \in 1..Len(listed(db)) |-> listed(db)[i].name ]

\* table_exists, lines 218-226: type='table' AND name=?
table_exists(db, table_name) ==
  \E i \in 1..Len(db) : db[i].name = table_name

\* the table SQLite resolves a name in FROM to
table_of(db, table_name) ==
  db[CHOOSE i \in 1..Len(db) : db[i].name = table_name]

\* _get_table_info, lines 57-79: PRAGMA table_info and SELECT COUNT(*)
get_table_info(table) ==
  [ name |-> table.name,
    columns |-> [ c \in 1..Len(table.columns) |->
                  [ name |-> table.columns[c].name,
                    type |-> table.columns[c].type,
                    nullable |-> ~table.columns[c].notnull,
                    primary_key |-> table.columns[c].pk ] ],
    row_count |-> Len(table.rows) ]

\* get_schema, lines 37-55
get_schema(db) ==
  [ tables |-> [ i \in 1..Len(listed(db)) |-> get_table_info(listed(db)[i]) ] ]

\* mutant: the primary key is not marked
table_lines_NoPk(table) ==
  << <<"\n","T","a","b","l","e",":"," ">> \o table.name \o <<" ","(">>
       \o int_to_str(table.row_count) \o <<" ","r","o","w","s",")">>,
     repeat("-", 30) >> \o
  [ c \in 1..Len(table.columns) |->
    LET col == table.columns[c]
        nullable == IF col.nullable
                    THEN <<" ","(","n","u","l","l","a","b","l","e",")">>
                    ELSE <<" ","(","n","o","t"," ","n","u","l","l",")">>
    IN <<" "," ","-"," ">> \o col.name \o <<":"," ">> \o col.type \o nullable ]

\* the lines of one table, lines 87-92
table_lines(table) ==
  << <<"\n","T","a","b","l","e",":"," ">> \o table.name \o <<" ","(">>
       \o int_to_str(table.row_count) \o <<" ","r","o","w","s",")">>,
     repeat("-", 30) >> \o
  [ c \in 1..Len(table.columns) |->
    LET col == table.columns[c]
        pk == IF col.primary_key
              THEN <<" ","[","P","R","I","M","A","R","Y"," ","K","E","Y","]">>
              ELSE <<>>
        nullable == IF col.nullable
                    THEN <<" ","(","n","u","l","l","a","b","l","e",")">>
                    ELSE <<" ","(","n","o","t"," ","n","u","l","l",")">>
    IN <<" "," ","-"," ">> \o col.name \o <<":"," ">> \o col.type \o nullable \o pk ]

\* get_schema_as_text, lines 81-94
get_schema_as_text(db) ==
  LET schema == get_schema(db)
      lines == << <<"D","A","T","A","B","A","S","E"," ",
                     "S","C","H","E","M","A",":">>,
                   repeat("=", 50) >> \o
               Flatten([ i \in 1..Len(schema.tables) |->
                         table_lines(schema.tables[i]) ])
  IN join(<<"\n">>, lines)

\* line 154: the declared types that get min, max and avg
NumericTypes ==
  { <<"I","N","T","E","G","E","R">>, <<"R","E","A","L">>, <<"N","U","M","E","R","I","C">>,
    <<"F","L","O","A","T">>, <<"D","O","U","B","L","E">> }

\* the values of column c of a table, the NULLs left out
non_null(table, c) ==
  SelectSeq([ r \in 1..Len(table.rows) |-> table.rows[r][c] ],
            LAMBDA x : ~x.null)

\* SELECT COUNT(*) FROM table WHERE col IS NULL
count_null(table, c) == Len(table.rows) - Len(non_null(table, c))

\* SELECT COUNT(DISTINCT col) FROM table
count_distinct(table, c) ==
  Cardinality({ non_null(table, c)[i].v : i \in 1..Len(non_null(table, c)) })

\* SELECT MIN(col), MAX(col), AVG(col) FROM table: NULL on no value; lines
\* 160-162 keep min and max and round a truthy avg to 2 places (the avg is
\* held in hundredths)
min_max_avg(table, c) ==
  LET xs == non_null(table, c)
      vs == { xs[i].v : i \in 1..Len(xs) }
      total == Sum([ i \in 1..Len(xs) |-> xs[i].v ])
  IN IF xs = <<>>
     THEN [ min |-> NULL, max |-> NULL, avg |-> NULL ]
     ELSE [ min |-> Val(Min(vs)),
            max |-> Val(Max(vs)),
            avg |-> IF total # 0
                    THEN Val(round_div(total * 100, Len(xs)))
                    ELSE NULL ]

\* line 126: next((t for t in schema["tables"] if t["name"] == table_name),
\* None), as the set of the indexes that match
matching(schema, table_name) ==
  { i \in 1..Len(schema.tables) : schema.tables[i].name = table_name }

\* mutant: the statistics of a table are an error
get_column_statistics_Raises(db, table_name) ==
  [ raised |-> "TableNotFound", stats |-> <<>> ]

\* get_column_statistics, lines 123-166: [raised, stats], stats one record
\* per column; has_min_max_avg tells whether the keys min, max and avg are
\* in the dict
get_column_statistics(db, table_name) ==
  LET schema == get_schema(db)
      found == matching(schema, table_name)
  IN IF found = {} THEN [ raised |-> "", stats |-> <<>> ]
     ELSE
       LET table_info == schema.tables[Min(found)]
           table == table_of(db, table_name)
       IN [ raised |-> "",
            stats |->
              [ c \in 1..Len(table_info.columns) |->
                LET col == table_info.columns[c]
                    numeric == upper(col.type) \in NumericTypes
                    mma == IF numeric THEN min_max_avg(table, c)
                           ELSE [ min |-> NULL, max |-> NULL, avg |-> NULL ]
                IN [ name |-> col.name,
                     type |-> col.type,
                     nullable |-> col.nullable,
                     null_count |-> count_null(table, c),
                     distinct_count |-> count_distinct(table, c),
                     has_min_max_avg |-> numeric,
                     min |-> mma.min,
                     max |-> mma.max,
                     avg |-> mma.avg ] ] ]

\* the dict {} of line 177
NoMetrics ==
  [ raised |-> "", empty |-> TRUE, completeness |-> 0, null_count |-> 0,
    duplicate_count |-> 0, unique_ratio |-> 0 ]

\* mutant: every row that repeats an earlier row is counted
count_duplicates_Rows(table) ==
  Cardinality({ i \in 1..Len(table.rows) :
                \E j \in 1..(i - 1) : table.rows[j] = table.rows[i] })

\* lines 195-203: the number of groups of fully equal rows with more than
\* one member
count_duplicates(table) ==
  Cardinality({ i \in 1..Len(table.rows) :
                /\ \A j \in 1..(i - 1) : table.rows[j] # table.rows[i]
                /\ \E j \in (i + 1)..Len(table.rows) :
                     table.rows[j] = table.rows[i] })

\* mutant: the empty table is not guarded against
get_data_quality_metrics_NoEmptyGuard(db, table_name) ==
  LET schema == get_schema(db)
      found == matching(schema, table_name)
  IN IF found = {} THEN NoMetrics
     ELSE IF schema.tables[Min(found)].row_count = 0
     THEN [ NoMetrics EXCEPT !.raised = "ZeroDivisionError", !.empty = FALSE ]
     ELSE
       LET table_info == schema.tables[Min(found)]
           table == table_of(db, table_name)
           total_cells == table_info.row_count * Len(table_info.columns)
           null_count ==
             Sum([ c \in 1..Len(table_info.columns) |-> count_null(table, c) ])
       IN [ raised |-> "",
            empty |-> FALSE,
            completeness |->
              round_div((total_cells - null_count) * 10000, total_cells),
            null_count |-> null_count,
            duplicate_count |-> count_duplicates(table),
            unique_ratio |->
              round_div(count_distinct(table, 1) * 10000,
                        table_info.row_count) ]

\* mutant: only the nulls of the first column are counted
get_data_quality_metrics_FirstColumn(db, table_name) ==
  LET schema == get_schema(db)
      found == matching(schema, table_name)
  IN IF found = {} THEN NoMetrics
     ELSE
       LET table_info == schema.tables[Min(found)]
           table == table_of(db, table_name)
           total_cells == table_info.row_count * Len(table_info.columns)
           null_count == count_null(table, 1)
       IN [ raised |-> "",
            empty |-> FALSE,
            completeness |->
              IF total_cells > 0
              THEN round_div((total_cells - null_count) * 10000, total_cells)
              ELSE 10000,
            null_count |-> null_count,
            duplicate_count |-> count_duplicates(table),
            unique_ratio |->
              IF table_info.row_count > 0
              THEN round_div(count_distinct(table, 1) * 10000,
                             table_info.row_count)
              ELSE 10000 ]

\* get_data_quality_metrics, lines 168-216; completeness is held in
\* hundredths of a percent and unique_ratio in ten-thousandths, the places
\* round() keeps
get_data_quality_metrics(db, table_name) ==
  LET schema == get_schema(db)
      found == matching(schema, table_name)
  IN IF found = {} THEN NoMetrics
     ELSE
       LET table_info == schema.tables[Min(found)]
           table == table_of(db, table_name)
           total_cells == table_info.row_count * Len(table_info.columns)
           null_count ==
             Sum([ c \in 1..Len(table_info.columns) |-> count_null(table, c) ])
           distinct == count_distinct(table, 1)
       IN [ raised |-> "",
            empty |-> FALSE,
            completeness |->
              IF total_cells > 0
              THEN round_div((total_cells - null_count) * 10000, total_cells)
              ELSE 10000,
            null_count |-> null_count,
            duplicate_count |-> count_duplicates(table),
            unique_ratio |->
              IF table_info.row_count > 0
              THEN round_div(distinct * 10000, table_info.row_count)
              ELSE 10000 ]

\* line 191 and line 212: completeness, in hundredths of a percent
completeness_of(total_cells, null_count) ==
  IF total_cells > 0
  THEN round_div((total_cells - null_count) * 10000, total_cells)
  ELSE 10000

\* line 209 and line 215: unique_ratio, in ten-thousandths
unique_ratio_of(distinct, row_count) ==
  IF row_count > 0 THEN round_div(distinct * 10000, row_count) ELSE 10000

\* get_table_sample, lines 115-121: SELECT * FROM table LIMIT ?; the
\* statement raises when the store has no such table
get_table_sample(db, table_name, limit) ==
  IF ~table_exists(db, table_name)
  THEN [ raised |-> "OperationalError", rows |-> <<>> ]
  ELSE LET rows == table_of(db, table_name).rows
       IN [ raised |-> "",
            rows |-> SubSeq(rows, 1, IF limit < Len(rows)
                                     THEN limit ELSE Len(rows)) ]

(***************************************************************************)
(* The connections of DatabaseService: get_connection, database.py lines   *)
(* 27-35, and the `with self.get_connection()` blocks of the operations.   *)
(* An operation is the sequence of its blocks, a block the number of       *)
(* statements it executes on its connection; the numbers are those of a    *)
(* store of ConnTables tables of ConnColumns columns, none of them of a    *)
(* numeric type.                                                           *)
(***************************************************************************)
Operations ==
  { "get_schema", "get_schema_as_text", "execute_query", "get_table_sample",
    "get_column_statistics", "get_data_quality_metrics", "table_exists",
    "get_table_names" }

\* get_schema, lines 39-55: the list of the tables, then PRAGMA table_info
\* and COUNT(*) for each table
schema_block == 1 + 2 * ConnTables

\* the blocks of an operation; found tells whether the table asked for is in
\* the schema (lines 131 and 176)
blocks_of(op, found) ==
  CASE op \in {"get_schema", "get_schema_as_text"} -> <<schema_block>>
    [] op \in {"execute_query", "get_table_sample"} -> <<1>>
    [] op \in {"table_exists", "get_table_names"} -> <<1>>
    [] op = "get_column_statistics" ->
         IF found THEN <<schema_block, 2 * ConnColumns>> ELSE <<schema_block>>
    [] op = "get_data_quality_metrics" ->
         IF found THEN <<schema_block, ConnColumns + 2>> ELSE <<schema_block>>

\* get_connection without try and finally: the connection is closed only
\* when the block ends without an exception
get_connection_exit_NoFinally(conns, c, raised) ==
  IF raised THEN conns ELSE { x \in conns : x.id # c }

\* get_connection, lines 34-35: `finally: conn.close()`, whether the block
\* ended or raised
get_connection_exit(conns, c, raised) == { x \in conns : x.id # c }

(***************************************************************************)
(* The decisions of query_data, query.py lines 68-150.                     *)
(***************************************************************************)
\* mutant: an empty generated SQL is not noticed
generation_failed_Never(sql) == FALSE

\* line 83: `if not generated_sql`
generation_failed(sql) == ~truthy(sql)

\* mutant: the SQL is executed whatever the execute flag says
should_execute_Always(req) == TRUE

\* line 120: `if request.execute`
should_execute(req) == req.execute

(***************************************************************************)
(* State.                                                                  *)
(***************************************************************************)
VARIABLES
  \* the validation step taken alone: its input SQL, the requested limit
  \* and what it yields
  vsql, vlimit, vres,
  \* a decoder taken alone: which of the three ("sql", "explain",
  \* "summary"), the text the provider returned, include_tips, the result
  dpath, dtext, dtips, dres,
  \* one request to POST /api/query:
  \*   request      its limit and execute fields
  \*   store_rows   the rows the table t of the store holds
  \*   pc           where query_data stands
  \*   response     the text the provider returned
  \*   generated_sql, explanation   the locals of query_data
  \*   response_data   the dict of lines 109-117, once built
  \*   outcome      what the caller receives
  \*   steps        the steps taken so far, in order (history)
  \*   executed     the SQL texts passed to execute_query (history)
  request, store_rows, pc, response, generated_sql, explanation,
  response_data, outcome, steps, executed,
  \* the store, and the statistics engine taken alone:
  \*   db             the catalog of the store, its tables in catalog order
  \*   table_name     the table the statistics are asked for
  \*   column_stats, quality_metrics   what get_column_statistics and
  \*                  get_data_quality_metrics returned
  \*   schema_texts   what the calls of get_schema_as_text returned (history)
  db, table_name, column_stats, quality_metrics, schema_texts,
  \* one request to POST /api/summarize:
  \*   sum_request    its table_name, include_sample_data and sample_size
  \*   sum_pc         where summarize_data stands
  \*   sum_locals     the locals of summarize_data
  \*   sum_response   the text the provider returned
  \*   sum_outcome    what the caller receives
  \*   sum_steps      the steps taken so far, in order (history)
  sum_request, sum_pc, sum_locals, sum_response, sum_outcome, sum_steps,
  \* the service singletons:
  \*   llm_service, db_service   the module globals _llm_service, _db_service
  \*   callers        the threads that run get_llm / get_db
  \*   returned       what the calls returned, in order (history)
  \*   next_id        the identity the next constructed instance gets
  llm_service, db_service, callers, returned, next_id,
  \* extract_tables_from_sql taken alone:
  \*   xsql      the statement passed to it
  \*   xtables   what it returned
  xsql, xtables,
  \* the connections the operations of DatabaseService open:
  \*   workers        the threads that run the operations: where each stands
  \*                  in its operation, and how its last operation ended
  \*   open_conns     the connections that are open, each with the thread
  \*                  whose operation opened it
  \*   next_conn      the identity the next connection gets
  \*   begun_ops      the number of operations begun
  workers, open_conns, next_conn, begun_ops,
  \* the statistics of a summarize request while other connections write:
  \*   wrows     the rows of the table now
  \*   wseen     the states of the table since the request began (history)
  \*   writes    the number of writes made
  \*   wpc       where the request stands: the statement to execute next,
  \*             and the column it is for
  \*   wlocals   the values the request has read so far
  wrows, wseen, writes, wpc, wlocals

vvars == <<vsql, vlimit, vres>>
dvars == <<dpath, dtext, dtips, dres>>
qvars == <<request, store_rows, pc, response, generated_sql, explanation,
           response_data, outcome, steps, executed>>
svars == <<db, table_name, column_stats, quality_metrics, schema_texts>>
mvars == <<sum_request, sum_pc, sum_locals, sum_response, sum_outcome,
           sum_steps>>
gvars == <<llm_service, db_service, callers, returned, next_id>>
evars == <<xsql, xtables>>
cvars == <<workers, open_conns, next_conn, begun_ops>>
wvars == <<wrows, wseen, writes, wpc, wlocals>>
xvars == <<evars, cvars, wvars>>
vars == <<vsql, vlimit, vres, dpath, dtext, dtips, dres,
          request, store_rows, pc, response, generated_sql, explanation,
          response_data, outcome, steps, executed,
          db, table_name, column_stats, quality_metrics, schema_texts,
          sum_request, sum_pc, sum_locals, sum_response, sum_outcome,
          sum_steps,
          llm_service, db_service, callers, returned, next_id,
          xsql, xtables,
          workers, open_conns, next_conn, begun_ops,
          wrows, wseen, writes, wpc, wlocals>>

\* an optional value: None, or Some(n)
None == [ set |-> FALSE, n |-> 0 ]
Some(n) == [ set |-> TRUE, n |-> n ]

\* response_data before it is built
NoData ==
  [ success |-> FALSE, generated_sql |-> <<>>, explanation |-> PyNone,
    results |-> None, row_count |-> None, execution_time_ms |-> None ]

\* a message: its fixed text and the text the f-string puts into it
Message(text, arg) == [ text |-> text, arg |-> arg ]
NoMessage == Message("", <<>>)

\* no outcome yet; a QueryResponse; an HTTPException whose detail holds
\* error_code, message and details (`keys` are the keys of the detail dict,
\* `details` the value under its one key)
NoOutcome ==
  [ kind |-> "pending", status |-> 0, error_code |-> "",
    message |-> NoMessage, details |-> <<>>, keys |-> {}, data |-> NoData ]
Responded(data) ==
  [ kind |-> "response", status |-> 200, error_code |-> "",
    message |-> NoMessage, details |-> <<>>, keys |-> {}, data |-> data ]
Failed(status, code, message, details) ==
  [ kind |-> "error", status |-> status, error_code |-> code,
    message |-> message, details |-> details,
    keys |-> {"error_code", "message", "details"}, data |-> NoData ]

\* the texts of the exceptions: the store cannot be opened or read; the
\* store rejects a statement; the provider cannot be reached, or answers
\* with an error status
StoreUnavailable == <<"unable to open database file">>
StoreRejects == <<"sqlite3.Error">>
ModelUnavailable == <<"ConnectError">>
ModelError == <<"HTTPStatusError">>

\* not decoded yet
NotDecoded == [ raised |-> "", tier |-> "pending", val |-> PyNone ]

\* no result yet
Pending == [ ok |-> FALSE, error |-> "PENDING", sql |-> <<>> ]

(***************************************************************************)
(* Inputs of the validation step.                                          *)
(***************************************************************************)
SqlFrags ==
  { <<"S","E","L","E","C","T"," ","x">>,
    <<"s","e","l","e","c","t"," ","x">>,
    <<" ">>,
    <<";">>,
    <<" ","L","I","M","I","T"," ","3">>,
    <<" ","l","i","m","i","t"," ","3">>,
    <<",","x","l","i","m","i","t">>,
    <<"D","R","O","P"," ","t">> }

SqlTexts == Texts(SqlFrags, MaxSqlFrags)

\* request.limit: sample values of LimitMin..LimitMax
Limits == { LimitMin, 2, 10, LimitMax }

\* the validation step is not under study
VIdle == vsql = <<>> /\ vlimit = LimitMin /\ vres = Pending

\* no decoder is under study
DIdle == dpath = "none" /\ dtext = <<>> /\ dtips = FALSE /\ dres = NotDecoded

\* no request is under study
QIdle ==
  /\ request = [ limit |-> LimitMin, execute |-> FALSE ]
  /\ store_rows = 0
  /\ pc = "idle"
  /\ response = <<>>
  /\ generated_sql = PyNone
  /\ explanation = PyNone
  /\ response_data = NoData
  /\ outcome = NoOutcome
  /\ steps = <<>>
  /\ executed = <<>>

\* get_column_statistics, get_data_quality_metrics not called yet
StatsNotCalled == [ raised |-> "pending", stats |-> <<>> ]
MetricsNotCalled == [ NoMetrics EXCEPT !.raised = "pending" ]

\* the store is not under study
SIdle ==
  /\ db = <<>>
  /\ table_name = <<>>
  /\ column_stats = StatsNotCalled
  /\ quality_metrics = MetricsNotCalled
  /\ schema_texts = <<>>

\* the locals of summarize_data before they are assigned
NoLocals ==
  [ column_stats |-> <<>>, quality_metrics |-> NoMetrics, row_count |-> 0,
    sample_data |-> [ set |-> FALSE, rows |-> <<>> ] ]

\* the fields of SummarizeResponse before they are given
NoSumData == [ locals |-> NoLocals, summary |-> <<>>, insights |-> <<>> ]

\* no outcome of a summarize request yet
NoSumOutcome == [ NoOutcome EXCEPT !.data = NoSumData ]

\* no summarize request is under study
MIdle ==
  /\ sum_request = [ table_name |-> <<>>, include_sample_data |-> FALSE,
                     sample_size |-> 1 ]
  /\ sum_pc = "idle"
  /\ sum_locals = NoLocals
  /\ sum_response = <<>>
  /\ sum_outcome = NoSumOutcome
  /\ sum_steps = <<>>

\* the global before the first call, and after reset_llm_service: None
NoInstance == [ id |-> 0, config |-> "" ]

\* a thread that runs no call
NotCalling == [ pc |-> "idle", fn |-> "", config |-> "" ]

\* the singletons are not under study
GIdle ==
  /\ llm_service = NoInstance
  /\ db_service = NoInstance
  /\ callers = <<>>
  /\ returned = <<>>
  /\ next_id = 1

\* extract_tables_from_sql not called yet
NotExtracted == [ done |-> FALSE, tables |-> {} ]

\* the statements of the explain endpoint are not under study
EIdle == xsql = <<>> /\ xtables = NotExtracted

\* a thread that runs no operation of DatabaseService
NoOperation ==
  [ pc |-> "idle", blocks |-> <<>>, conn |-> 0, raised |-> FALSE,
    opened |-> 0 ]

\* the connections are not under study
CIdle ==
  /\ workers = <<>>
  /\ open_conns = {}
  /\ next_conn = 1
  /\ begun_ops = 0

\* the values of a summarize request before it reads them
NothingRead ==
  [ stats |-> <<>>, table_info_row_count |-> 0, null_count |-> 0,
    duplicate_count |-> 0, quality_metrics |-> NoMetrics, row_count |-> 0 ]

\* no request is under study while the table is written
WIdle ==
  /\ wrows = <<>>
  /\ wseen = {}
  /\ writes = 0
  /\ wpc = [ at |-> "idle", col |-> 0 ]
  /\ wlocals = NothingRead

\* nothing but the requests, the store and the services is under study
XIdle == EIdle /\ CIdle /\ WIdle

VInit ==
  /\ vsql \in SqlTexts
  /\ vlimit \in Limits
  /\ vres = Pending
  /\ DIdle
  /\ QIdle
  /\ SIdle
  /\ MIdle
  /\ GIdle
  /\ XIdle

\* query.py lines 93-107 applied to (vsql, vlimit)
Validate ==
  /\ vres = Pending
  /\ vres' = validate(vsql, vlimit)
  /\ UNCHANGED <<vsql, vlimit>>
  /\ UNCHANGED <<dvars, qvars, svars, mvars, gvars, xvars>>

VNext == Validate

SpecValidate == VInit /\ [][VNext]_vars

(***************************************************************************)
(* Properties of the validation step.                                      *)
(***************************************************************************)
VDone == vres # Pending

\* the SQL has a LIMIT clause: the keyword LIMIT, in any letter case, as a
\* word of its own
HasLimitClause(s) ==
  LET u == upper(s) IN
  \E i \in 1..(Len(u) - Len(LIMIT) + 1) :
    /\ SubSeq(u, i, i + Len(LIMIT) - 1) = LIMIT
    /\ (i = 1 \/ ~IsWordChar(u[i - 1]))
    /\ (i + Len(LIMIT) > Len(u) \/ ~IsWordChar(u[i + Len(LIMIT)]))

\* C1 as stated: validation fails with INVALID_SQL_TYPE or its output SQL
\* begins with the characters SELECT.
C1_BeginsWithSELECT ==
  VDone =>
    \/ (~vres.ok /\ vres.error = "INVALID_SQL_TYPE")
    \/ (vres.ok /\ startswith(vres.sql, SELECT))

\* C1 amended: validation fails with INVALID_SQL_TYPE or its output SQL,
\* once leading whitespace is trimmed and letters are upper-cased, begins
\* with SELECT.
C1_BeginsWithSelectNormalized ==
  VDone =>
    \/ (~vres.ok /\ vres.error = "INVALID_SQL_TYPE")
    \/ (vres.ok /\ startswith(upper(lstrip(vres.sql)), SELECT))

\* an accepted SQL whose output does not literally begin with SELECT
C1_Witness ==
  /\ VDone /\ vres.ok
  /\ ~startswith(vres.sql, SELECT)
  /\ vres.sql # vsql

\* C2 as stated: an accepted SQL without a LIMIT clause becomes the input
\* with trailing terminators stripped followed by " LIMIT n"; an accepted
\* SQL with a LIMIT clause is left unchanged.
C2_LimitAppended ==
  (VDone /\ vres.ok) =>
    IF HasLimitClause(vsql)
    THEN vres.sql = vsql
    ELSE vres.sql = rstrip(vsql, {";"}) \o LimitSuffix(vlimit)


(***************************************************************************)
(* The three decoders, each applied to the text of one provider response.  *)
(***************************************************************************)
\* fragments of the texts given to generate_sql's decoding
SqlRespFrags ==
  {
    \* {"sql": "SELECT 1"
    <<"{","\"","s","q","l","\"",":"," ","\"","S","E","L","E","C","T"," ","1",
      "\"">>,
    \* , "explanation": "test"
    <<","," ","\"","e","x","p","l","a","n","a","t","i","o","n","\"",":"," ",
      "\"","t","e","s","t","\"">>,
    \* }
    <<"}">>,
    \* {
    <<"{">>,
    \* Sure! 
    <<"S","u","r","e","!"," ">>,
    \* SELECT 1
    <<"S","E","L","E","C","T"," ","1">>,
    \* ;
    <<";">>,
    \* {"explanation": "test"
    <<"{","\"","e","x","p","l","a","n","a","t","i","o","n","\"",":"," ","\"",
      "t","e","s","t","\"">>,
    \* {"sql": null
    <<"{","\"","s","q","l","\"",":"," ","n","u","l","l">>,
    \* {"sql": <DeepArray>
    <<"{","\"","s","q","l","\"",":"," ",DeepArray>> }

\* fragments of the texts given to explain_query's decoding
ExplainRespFrags ==
  {
    \* {"explanation": "e"
    <<"{","\"","e","x","p","l","a","n","a","t","i","o","n","\"",":"," ","\"",
      "e","\"">>,
    \* , "components": {"SELECT": "c"}
    <<","," ","\"","c","o","m","p","o","n","e","n","t","s","\"",":"," ","{",
      "\"","S","E","L","E","C","T","\"",":"," ","\"","c","\"","}">>,
    \* , "tables": ["t"], "complexity": "simple"
    <<","," ","\"","t","a","b","l","e","s","\"",":"," ","[","\"","t","\"","]",
      ","," ","\"","c","o","m","p","l","e","x","i","t","y","\"",":"," ","\"",
      "s","i","m","p","l","e","\"">>,
    \* , "optimization_tips": ["i"]
    <<","," ","\"","o","p","t","i","m","i","z","a","t","i","o","n","_","t",
      "i","p","s","\"",":"," ","[","\"","i","\"","]">>,
    \* }
    <<"}">>,
    \* {
    <<"{">>,
    \*  text 
    <<" ","t","e","x","t"," ">>,
    \* {"tables": <DeepArray>
    <<"{","\"","t","a","b","l","e","s","\"",":"," ",DeepArray>> }

\* fragments of the texts given to summarize_data's decoding
SummaryRespFrags ==
  {
    \* {"summary": "s"
    <<"{","\"","s","u","m","m","a","r","y","\"",":"," ","\"","s","\"">>,
    \* , "insights": ["i"]
    <<","," ","\"","i","n","s","i","g","h","t","s","\"",":"," ","[","\"","i",
      "\"","]">>,
    \* }
    <<"}">>,
    \* {
    <<"{">>,
    \*  text 
    <<" ","t","e","x","t"," ">>,
    \* {"insights": ["i"]
    <<"{","\"","i","n","s","i","g","h","t","s","\"",":"," ","[","\"","i","\"",
      "]">>,
    \* {"insights": <DeepArray>
    <<"{","\"","i","n","s","i","g","h","t","s","\"",":"," ",DeepArray>> }

DInit ==
  /\ \/ dpath = "sql" /\ dtext \in Texts(SqlRespFrags, MaxRespFrags)
                      /\ dtips = FALSE
     \/ dpath = "explain" /\ dtext \in Texts(ExplainRespFrags, MaxRespFrags)
                          /\ dtips \in BOOLEAN
     \/ dpath = "summary" /\ dtext \in Texts(SummaryRespFrags, MaxRespFrags)
                          /\ dtips = FALSE
  /\ dres = NotDecoded
  /\ VIdle
  /\ QIdle
  /\ SIdle
  /\ MIdle
  /\ GIdle
  /\ XIdle

\* generate_sql from line 134 on, with response = dtext
DecodeSql ==
  /\ dpath = "sql" /\ dres = NotDecoded
  /\ dres' = decode_sql(dtext)
  /\ UNCHANGED <<dpath, dtext, dtips>>
  /\ UNCHANGED <<vvars, qvars, svars, mvars, gvars, xvars>>

\* explain_query from line 208 on, with response = dtext
DecodeExplain ==
  /\ dpath = "explain" /\ dres = NotDecoded
  /\ dres' = decode_explain(dtext, dtips)
  /\ UNCHANGED <<dpath, dtext, dtips>>
  /\ UNCHANGED <<vvars, qvars, svars, mvars, gvars, xvars>>

\* summarize_data from line 303 on, with response = dtext
DecodeSummary ==
  /\ dpath = "summary" /\ dres = NotDecoded
  /\ dres' = decode_summary(dtext)
  /\ UNCHANGED <<dpath, dtext, dtips>>
  /\ UNCHANGED <<vvars, qvars, svars, mvars, gvars, xvars>>

DNext == DecodeSql \/ DecodeExplain \/ DecodeSummary

SpecDecode == DInit /\ [][DNext]_vars

(***************************************************************************)
(* Properties of the decoders.                                             *)
(***************************************************************************)
DDone == dres # NotDecoded

\* C6 as stated: whatever text the provider returned, each decoder returns
\* a result and raises nothing.
C6_DecoderNeverRaises == DDone => dres.raised = ""


\* the spans of s that open with "{" and close with "}"
BraceSpans(s) ==
  { p \in { i \in 1..Len(s) : s[i] = "{" } \X { j \in 1..Len(s) : s[j] = "}" } :
      p[1] < p[2] }

\* no JSON object parses from s: every span in braces is malformed JSON
NoJsonObjectParses(s) ==
  \A p \in BraceSpans(s) :
    json_loads(SubSeq(s, p[1], p[2])).st = "JSONDecodeError"

\* the object the structured tier of the decoder under study parsed
TheObject ==
  json_loads(group(dtext, IF dpath = "sql" THEN search_object_flat(dtext)
                          ELSE search_object_greedy(dtext))).val

HasKey(obj, key) == \E i \in 1..Len(obj.v) : obj.v[i].k = key

\* the value of the object's field, or the fallback when it has none
FieldOr(obj, key, fallback) ==
  IF HasKey(obj, key)
  THEN obj.v[CHOOSE i \in 1..Len(obj.v) : obj.v[i].k = key].val
  ELSE fallback

\* {"sql": "SELECT 1", "explanation": "test"}
ExampleText ==
  <<"{","\"","s","q","l","\"",":"," ","\"","S","E","L","E","C","T"," ","1",
    "\"",","," ","\"","e","x","p","l","a","n","a","t","i","o","n","\"",":",
    " ","\"","t","e","s","t","\"","}">>

\* the example of C7: the text above yields SQL "SELECT 1", explanation "test"
ExampleDecoded ==
  (dpath = "sql" /\ dtext = ExampleText) =>
    /\ dres.val.sql = PyStr(<<"S","E","L","E","C","T"," ","1">>)
    /\ dres.val.explanation = PyStr(<<"t","e","s","t">>)

\* what C7 says of a parsed object, with `missing` the explanation that
\* generate_sql gives an object without one
FieldsFromObject(missing) ==
  (DDone /\ dres.tier = "json") =>
    /\ ExampleDecoded
    /\ dpath = "sql" =>
         /\ dres.val.sql = FieldOr(TheObject, K_sql, PyStr(<<>>))
         /\ dres.val.explanation = FieldOr(TheObject, K_explanation, missing)
    /\ dpath = "explain" =>
         dres.val.explanation = FieldOr(TheObject, K_explanation, PyStr(<<>>))
    /\ dpath = "summary" =>
         /\ dres.val.summary = FieldOr(TheObject, K_summary, PyStr(<<>>))
         /\ dres.val.insights = FieldOr(TheObject, K_insights, PyList(<<>>))

\* C7 as stated: a parsed object's fields make the result, a missing
\* explanation gives the empty string and missing insights the empty list.
C7_MissingExplanationEmpty == FieldsFromObject(PyStr(<<>>))

\* C7 amended: as stated, except that generate_sql gives an object without
\* an explanation the fixed text "Query generated from natural language";
\* explain_query gives the empty string.
C7_FieldsWithFallbacks == FieldsFromObject(PyStr(GeneratedExplanation))

\* generate_sql parsed an object that has a sql field and no explanation
C7_Witness ==
  /\ DDone /\ dpath = "sql" /\ dres.tier = "json"
  /\ HasKey(TheObject, K_sql)
  /\ ~HasKey(TheObject, K_explanation)

\* the 'SELECT ... ;' spans of s: SELECT in any letter case, at least one
\* character, and the first ";" after it
SelectSpans(s) ==
  LET u == upper(s)
      starts == { i \in 1..Len(s) : has_at(u, i, SELECT) }
      semis == { j \in 1..Len(s) : s[j] = ";" }
  IN { p \in starts \X semis :
         /\ p[2] > p[1] + Len(SELECT)
         /\ \A k \in semis : ~(p[1] + Len(SELECT) <= k /\ k < p[2]) }

\* the leftmost of them
FirstSelectSpan(s) ==
  CHOOSE p \in SelectSpans(s) : \A q \in SelectSpans(s) : p[1] <= q[1]

\* C8: when no JSON object parses from the text and the text has a
\* 'SELECT ... ;' span, generate_sql returns the (leftmost) span verbatim as
\* the SQL, with the explanation "Query generated from natural language".
C8_SelectSpanVerbatim ==
  (DDone /\ dpath = "sql" /\ NoJsonObjectParses(dtext)
         /\ SelectSpans(dtext) # {}) =>
    LET span == FirstSelectSpan(dtext) IN
    /\ dres.raised = ""
    /\ dres.val.sql = PyStr(SubSeq(dtext, span[1], span[2]))
    /\ dres.val.explanation = PyStr(GeneratedExplanation)

\* the regex tier returned a span that text precedes and text follows
C8_Witness ==
  /\ DDone /\ dpath = "sql" /\ NoJsonObjectParses(dtext)
  /\ SelectSpans(dtext) # {}
  /\ LET span == FirstSelectSpan(dtext) IN span[1] > 1 /\ span[2] < Len(dtext)
  /\ dres.tier = "regex"

\* C10: when no JSON object parses from the text, explain_query returns the
\* text unchanged as the explanation with an empty components mapping, an
\* empty tables list, no tips and no issues, and summarize_data returns it
\* unchanged as the summary with an empty insights list.
C10_RawTextFallback ==
  (DDone /\ NoJsonObjectParses(dtext)) =>
    /\ dpath = "explain" =>
         /\ dres.raised = ""
         /\ dres.val.explanation = PyStr(dtext)
         /\ dres.val.components = PyDict(<<>>)
         /\ dres.val.tables = PyList(<<>>)
         /\ dres.val.optimization_tips = PyNone
         /\ dres.val.potential_issues = PyNone
    /\ dpath = "summary" =>
         /\ dres.raised = ""
         /\ dres.val.summary = PyStr(dtext)
         /\ dres.val.insights = PyList(<<>>)

\* explain_query fell back on a text that holds braces
C10_Witness ==
  /\ DDone /\ dpath = "explain" /\ NoJsonObjectParses(dtext)
  /\ BraceSpans(dtext) # {}
  /\ dres.val.explanation = PyStr(dtext)


(***************************************************************************)
(* One request to POST /api/query: query_data, query.py lines 68-150.      *)
(***************************************************************************)
PipeSqlFrags ==
  { <<"S","E","L","E","C","T"," ","*"," ","F","R","O","M"," ","t">>,
    <<"s","e","l","e","c","t"," ","*"," ","f","r","o","m"," ","t">>,
    <<" ","L","I","M","I","T"," ","3">>,
    <<";">>,
    <<";","D","R","O","P"," ","T","A","B","L","E"," ","t">>,
    <<" ">> }

PipeSqlTexts == Texts(PipeSqlFrags, MaxPipeFrags)

\* {"sql": "<s>", "explanation": "e"}
JsonResponse(s) ==
  <<"{","\"","s","q","l","\"",":"," ","\"">> \o s \o
  <<"\"",","," ","\"","e","x","p","l","a","n","a","t","i","o","n","\"",":",
    " ","\"","e","\"","}">>

\* Sure! <s>
ChatResponse(s) == <<"S","u","r","e","!"," ">> \o s

OtherResponses ==
  { \* hello
    <<"h","e","l","l","o">>,
    \* {"explanation": "e"}
    <<"{","\"","e","x","p","l","a","n","a","t","i","o","n","\"",":"," ",
      "\"","e","\"","}">>,
    \* {"sql": <DeepArray>}
    <<"{","\"","s","q","l","\"",":"," ",DeepArray,"}">>,
    \* {"sql": 1}
    <<"{","\"","s","q","l","\"",":"," ","1","}">>,
    \* {"sql": "SELECT * FROM t", "explanation": null}
    <<"{","\"","s","q","l","\"",":"," ","\"","S","E","L","E","C","T"," ","*",
      " ","F","R","O","M"," ","t","\"",","," ","\"","e","x","p","l","a","n",
      "a","t","i","o","n","\"",":"," ","n","u","l","l","}">> }

\* the texts the provider may return
ModelResponses ==
  { JsonResponse(s) : s \in PipeSqlTexts } \cup
  { ChatResponse(s) : s \in PipeSqlTexts } \cup OtherResponses

QInit ==
  /\ request \in [ limit : Limits, execute : BOOLEAN ]
  /\ store_rows \in 0..MaxRows
  /\ pc = "start"
  /\ response = <<>>
  /\ generated_sql = PyNone
  /\ explanation = PyNone
  /\ response_data = NoData
  /\ outcome = NoOutcome
  /\ steps = <<>>
  /\ executed = <<>>
  /\ VIdle
  /\ DIdle
  /\ SIdle
  /\ MIdle
  /\ GIdle
  /\ XIdle

\* line 88: the message of SQL_GENERATION_FAILED
GenerationFailedMessage ==
  "Could not generate a valid SQL query from the provided question"

\* mutant: the SQL is left out of the error
execution_failed_NoSql(e, sql) ==
  Failed(400, "QUERY_EXECUTION_FAILED",
         Message("Failed to execute generated SQL: ", e), <<>>)

\* lines 127-136: the exception e of execute_query(sql) becomes
\* QUERY_EXECUTION_FAILED
execution_failed(e, sql) ==
  Failed(400, "QUERY_EXECUTION_FAILED",
         Message("Failed to execute generated SQL: ", e), sql)

\* database.py lines 108-111: the time.perf_counter() readings around
\* execute and fetchall, in ms; the clock never runs backwards
elapsed_ms(start, end) == (end - start) * 1000

\* mutant: INTERNAL_ERROR carries details as the other errors do
InternalError_WithDetails(e) ==
  [ kind |-> "error", status |-> 500, error_code |-> "INTERNAL_ERROR",
    message |-> Message("An unexpected error occurred: ", e),
    details |-> e, keys |-> {"error_code", "message", "details"},
    data |-> NoData ]

\* lines 142-150: any exception but HTTPException becomes INTERNAL_ERROR
InternalError(e) ==
  [ kind |-> "error", status |-> 500, error_code |-> "INTERNAL_ERROR",
    message |-> Message("An unexpected error occurred: ", e),
    details |-> <<>>, keys |-> {"error_code", "message"}, data |-> NoData ]

\* line 70: db.get_schema_as_text() returns
GetSchema ==
  /\ pc = "start"
  /\ pc' = "have_schema"
  /\ steps' = Append(steps, "schema")
  /\ UNCHANGED <<request, store_rows, response, generated_sql, explanation,
                 response_data, outcome, executed>>
  /\ UNCHANGED <<vvars, dvars, svars, mvars, gvars, xvars>>

\* line 70: the store cannot be read and get_schema_as_text raises
GetSchemaFails ==
  /\ pc = "start"
  /\ pc' = "done"
  /\ steps' = Append(steps, "schema")
  /\ outcome' = InternalError(StoreUnavailable)
  /\ UNCHANGED <<request, store_rows, response, generated_sql, explanation,
                 response_data, executed>>
  /\ UNCHANGED <<vvars, dvars, svars, mvars, gvars, xvars>>

\* llm.py line 132: provider.generate returns a text
Generate ==
  /\ pc = "have_schema"
  /\ \E text \in ModelResponses : response' = text
  /\ pc' = "have_response"
  /\ steps' = Append(steps, "model")
  /\ UNCHANGED <<request, store_rows, generated_sql, explanation,
                 response_data, outcome, executed>>
  /\ UNCHANGED <<vvars, dvars, svars, mvars, gvars, xvars>>

\* mutant: a failed call of the provider is tried again
GenerateFails_Retry ==
  /\ pc = "have_schema"
  /\ Len(steps) < 4
  /\ steps' = Append(steps, "model")
  /\ UNCHANGED <<request, store_rows, pc, response, generated_sql,
                 explanation, response_data, outcome, executed>>
  /\ UNCHANGED <<vvars, dvars, svars, mvars, gvars, xvars>>

\* llm.py line 132: provider.generate raises
GenerateFails ==
  /\ pc = "have_schema"
  /\ pc' = "done"
  /\ steps' = Append(steps, "model")
  /\ \E e \in {ModelUnavailable, ModelError} : outcome' = InternalError(e)
  /\ UNCHANGED <<request, store_rows, response, generated_sql, explanation,
                 response_data, executed>>
  /\ UNCHANGED <<vvars, dvars, svars, mvars, gvars, xvars>>

\* query.py lines 74-91: what query_data does with the result of
\* generate_sql; an empty SQL ends the request
decoded_sql(result) ==
  IF result.raised # ""
  THEN /\ pc' = "done"
       /\ outcome' = InternalError(<<result.raised>>)
       /\ UNCHANGED <<generated_sql, explanation>>
  ELSE /\ generated_sql' = result.val.sql
       /\ explanation' = result.val.explanation
       /\ IF generation_failed(result.val.sql)
          THEN /\ pc' = "done"
               /\ outcome' =
                    Failed(400, "SQL_GENERATION_FAILED",
                           Message(GenerationFailedMessage, <<>>),
                           <<>>)
          ELSE /\ pc' = "decoded"
               /\ UNCHANGED outcome

\* llm.py lines 134-158 and query.py lines 80-91: the response is decoded
\* and an empty SQL ends the request
Decode ==
  /\ pc = "have_response"
  /\ steps' = Append(steps, "decode")
  /\ decoded_sql(decode_sql(response))
  /\ UNCHANGED <<request, store_rows, response, response_data, executed>>
  /\ UNCHANGED <<vvars, dvars, svars, mvars, gvars, xvars>>

\* query.py lines 93-117: the SQL is validated, the limit applied and
\* response_data built; .upper() of a value that is no str raises
ValidateSql ==
  /\ pc = "decoded"
  /\ steps' = Append(steps, "validate")
  /\ IF generated_sql.t # "str"
     THEN /\ pc' = "done"
          /\ outcome' = InternalError(<<"AttributeError">>)
          /\ UNCHANGED <<generated_sql, response_data>>
     ELSE LET r == validate(generated_sql.v, request.limit) IN
          IF ~r.ok
          THEN /\ pc' = "done"
               /\ outcome' =
                    Failed(400, r.error,
                           Message("Only SELECT queries are allowed", <<>>),
                           generated_sql.v)
               /\ UNCHANGED <<generated_sql, response_data>>
          ELSE /\ pc' = "validated"
               /\ generated_sql' = PyStr(r.sql)
               /\ response_data' =
                    [ success |-> TRUE, generated_sql |-> r.sql,
                      explanation |-> explanation, results |-> None,
                      row_count |-> None, execution_time_ms |-> None ]
               /\ UNCHANGED outcome
  /\ UNCHANGED <<request, store_rows, response, explanation, executed>>
  /\ UNCHANGED <<vvars, dvars, svars, mvars, gvars, xvars>>

\* query.py lines 120-136: execute_query runs the SQL on the store
Execute ==
  /\ pc = "validated"
  /\ should_execute(request)
  /\ steps' = Append(steps, "execute")
  /\ executed' = Append(executed, generated_sql.v)
  /\ LET r == execute_query(generated_sql.v, store_rows) IN
     IF r.ok
     THEN /\ pc' = "executed"
          /\ \E start \in 0..MaxClock : \E end \in start..MaxClock :
               response_data' =
                 [ response_data EXCEPT
                     !.results = Some(r.rows),
                     !.row_count = Some(r.rows),
                     !.execution_time_ms = Some(elapsed_ms(start, end)) ]
          /\ UNCHANGED outcome
     ELSE /\ pc' = "done"
          /\ outcome' = execution_failed(StoreRejects, generated_sql.v)
          /\ UNCHANGED response_data
  /\ UNCHANGED <<request, store_rows, response, generated_sql, explanation>>
  /\ UNCHANGED <<vvars, dvars, svars, mvars, gvars, xvars>>

\* query.py lines 120-136: the store cannot be read and execute_query raises
ExecuteStoreFails ==
  /\ pc = "validated"
  /\ should_execute(request)
  /\ steps' = Append(steps, "execute")
  /\ executed' = Append(executed, generated_sql.v)
  /\ pc' = "done"
  /\ outcome' = execution_failed(StoreUnavailable, generated_sql.v)
  /\ UNCHANGED <<request, store_rows, response, generated_sql, explanation,
                 response_data>>
  /\ UNCHANGED <<vvars, dvars, svars, mvars, gvars, xvars>>

\* query.py line 138: QueryResponse(**response_data); its explanation field
\* is a str, and any other value fails the model's validation
Respond ==
  /\ \/ pc = "executed"
     \/ pc = "validated" /\ ~should_execute(request)
  /\ pc' = "done"
  /\ outcome' = IF response_data.explanation.t = "str"
                THEN Responded(response_data)
                ELSE InternalError(<<"ValidationError">>)
  /\ UNCHANGED <<request, store_rows, response, generated_sql, explanation,
                 response_data, steps, executed>>
  /\ UNCHANGED <<vvars, dvars, svars, mvars, gvars, xvars>>

Next ==
  \/ GetSchema
  \/ GetSchemaFails
  \/ Generate
  \/ GenerateFails
  \/ Decode
  \/ ValidateSql
  \/ Execute
  \/ ExecuteStoreFails
  \/ Respond

Spec == QInit /\ [][Next]_vars


(***************************************************************************)
(* Properties of the query pipeline.                                       *)
(***************************************************************************)
\* the request has ended with a QueryResponse
Succeeded == pc = "done" /\ outcome.kind = "response"

\* s is one read-only statement: a SELECT, with at most a terminator at its
\* end and no statement after it
IsSingleSelect(s) ==
  LET a == strip(s)
      b == IF a # <<>> /\ a[Len(a)] = ";" THEN SubSeq(a, 1, Len(a) - 1) ELSE a
  IN /\ startswith(upper(b), SELECT)
     /\ ~contains(b, <<";">>)

\* C3 as stated: execute_query is called only when the decoded SQL is a
\* single read-only SELECT statement; any other decoded SQL is rejected
\* before the call.
C3_OnlySingleSelectExecuted ==
  executed # <<>> =>
    LET result == decode_sql(response) IN
    /\ result.raised = ""
    /\ result.val.sql.t = "str"
    /\ IsSingleSelect(result.val.sql.v)

\* C4 as stated: a request with execute = true that succeeds returns no
\* more rows than its limit.
C4_RowCountWithinLimit ==
  (Succeeded /\ request.execute) =>
    /\ outcome.data.row_count.set
    /\ outcome.data.row_count.n <= request.limit

\* the steps of a request, in their order
StepOrder == <<"schema", "model", "decode", "validate", "execute">>

IsPrefix(a, b) == Len(a) <= Len(b) /\ SubSeq(b, 1, Len(a)) = a

\* C5: the steps of a request are taken in the order schema fetch, model
\* call, decode, validate, execute; execute_query is called only with the
\* SQL that passed validation and only when the execute flag is true; with
\* the flag false the response has no results, row count or execution time.
C5_StepsInOrder ==
  /\ IsPrefix(steps, StepOrder)
  /\ Len(executed) <= 1
  /\ executed # <<>> =>
       /\ request.execute
       /\ SubSeq(steps, 1, Len(steps) - 1) = SubSeq(StepOrder, 1, 4)
       /\ steps[Len(steps)] = "execute"
       /\ response_data.success
       /\ executed[1] = response_data.generated_sql
       /\ startswith(strip(upper(executed[1])), SELECT)
  /\ (Succeeded /\ ~request.execute) =>
       /\ outcome.data.results = None
       /\ outcome.data.row_count = None
       /\ outcome.data.execution_time_ms = None
  /\ (Succeeded /\ request.execute) => outcome.data.results.set

\* a request with execute = true has gone through all five steps and
\* succeeded with rows
C5_Witness ==
  /\ Succeeded /\ request.execute
  /\ steps = StepOrder
  /\ outcome.data.row_count.n > 0

\* no SELECT span in s: no SELECT, in any letter case, that a character
\* other than ";" follows
NoSelectSpan(s) ==
  ~\E i \in 1..Len(s) :
     /\ has_at(upper(s), i, SELECT)
     /\ i + Len(SELECT) <= Len(s)
     /\ s[i + Len(SELECT)] # ";"

\* the text is unparseable: no JSON object parses from it and it has no
\* SELECT span
Unparseable(s) == NoJsonObjectParses(s) /\ NoSelectSpan(s)

\* the response has been decoded
Decoded == Len(steps) >= 3

\* C9: for an unparseable model text SQL decoding yields the empty string,
\* and the request ends with SQL_GENERATION_FAILED with no validation and
\* no call of the executor.
C9_UnparseableFailsGeneration ==
  (Decoded /\ Unparseable(response)) =>
    /\ generated_sql = PyStr(<<>>)
    /\ pc = "done"
    /\ outcome.kind = "error"
    /\ outcome.error_code = "SQL_GENERATION_FAILED"
    /\ steps = SubSeq(StepOrder, 1, 3)
    /\ executed = <<>>

\* an unparseable, non-empty text has been decoded
C9_Witness ==
  /\ Decoded /\ Unparseable(response)
  /\ response # <<>>
  /\ outcome.error_code = "SQL_GENERATION_FAILED"


\* how often x occurs in a sequence
Count(xs, x) == Cardinality({ i \in 1..Len(xs) : xs[i] = x })

\* the request has ended with the error a failed call of the provider made
ModelCallFailed ==
  /\ outcome.error_code = "INTERNAL_ERROR"
  /\ outcome.message.arg \in {ModelUnavailable, ModelError}

\* the request has ended with the error a failed read of the schema made
SchemaCallFailed ==
  /\ outcome.error_code = "INTERNAL_ERROR"
  /\ outcome.message.arg = StoreUnavailable

\* C13: no automatic retries: in a request the provider is called at most
\* once and the generated SQL is executed at most once, and a failed model
\* call or store call ends the request with an error at once: the failed
\* call is the last step taken.
C13_NoRetries ==
  /\ Count(steps, "model") <= 1
  /\ Count(steps, "schema") <= 1
  /\ Count(steps, "execute") <= 1
  /\ Len(executed) <= 1
  /\ SchemaCallFailed => pc = "done" /\ steps = <<"schema">>
  /\ ModelCallFailed => pc = "done" /\ steps = <<"schema", "model">>
  /\ outcome.error_code = "QUERY_EXECUTION_FAILED" =>
       pc = "done" /\ steps = StepOrder /\ Len(executed) = 1
  /\ outcome.kind = "error" => pc = "done"

\* the call of the provider has failed and the request has ended
C13_Witness ==
  /\ ModelCallFailed
  /\ pc = "done"
  /\ steps = <<"schema", "model">>

\* the store has raised on the SQL it was sent
StoreRaised ==
  /\ executed # <<>>
  /\ pc = "done"
  /\ outcome.error_code = "QUERY_EXECUTION_FAILED"

\* C15: when the store rejects the validated SQL, the request fails with
\* QUERY_EXECUTION_FAILED, the details hold the SQL as it was sent to the
\* store (the appended LIMIT included), the message holds the store's error
\* text, and no results are returned.
C15_ExecutionErrorCarriesSql ==
  /\ (executed # <<>> /\ ~execute_query(executed[1], store_rows).ok) =>
       StoreRaised
  /\ StoreRaised =>
       /\ outcome.kind = "error"
       /\ outcome.keys = {"error_code", "message", "details"}
       /\ outcome.details = executed[1]
       /\ outcome.details
            = validate(decode_sql(response).val.sql.v, request.limit).sql
       /\ outcome.message.text = "Failed to execute generated SQL: "
       /\ outcome.message.arg \in {StoreRejects, StoreUnavailable}
       /\ outcome.data.results = None
       /\ outcome.data.row_count = None

\* the store has rejected an SQL that got its LIMIT appended
C15_Witness ==
  /\ StoreRaised
  /\ outcome.message.arg = StoreRejects
  /\ outcome.details # decode_sql(response).val.sql.v
  /\ outcome.details = executed[1]

\* the number k of a trailing LIMIT k of the SQL, or -1
limit_of(sql) ==
  LET w == words(upper(rstrip(strip(sql), {";"}))) IN
  IF Len(w) >= 2 /\ w[Len(w) - 1] = LIMIT /\ IsNumber(w[Len(w)])
  THEN str_to_int(w[Len(w)]) ELSE -1

\* the number of rows SELECT * FROM t [LIMIT k] matches in a table of n rows
MatchingRows(sql, n) ==
  IF limit_of(sql) >= 0 /\ limit_of(sql) < n THEN limit_of(sql) ELSE n

\* execute_query has returned
QueryReturned == executed # <<>> /\ response_data.results.set

\* C16: for a valid SELECT on an existing table execute_query returns all
\* the matching rows, so that the row count is the number of matching
\* rows, and the elapsed time is not negative.
C16_RowCountAndElapsed ==
  QueryReturned =>
    /\ response_data.results.n = MatchingRows(executed[1], store_rows)
    /\ response_data.row_count = response_data.results
    /\ response_data.execution_time_ms.set
    /\ response_data.execution_time_ms.n >= 0

\* a query has returned some but not all rows of the table, in some time
C16_Witness ==
  /\ QueryReturned
  /\ response_data.row_count.n > 0
  /\ response_data.row_count.n < store_rows
  /\ response_data.execution_time_ms.n > 0

(***************************************************************************)
(* The stores of the model.                                                *)
(***************************************************************************)
Column(name, type, notnull, pk) ==
  [ name |-> name, type |-> type, notnull |-> notnull, pk |-> pk ]

\* every sequence of at most n members of S
Seqs(S, n) == UNION { [1..k -> S] : k \in 0..n }

\* CREATE TABLE t (id INT, name TEXT), with the rows given; the rows of
\* the model are (1,'a'), (2,NULL), (2,'a') and (NULL,NULL), a text being
\* held as a number
TableT(rows) ==
  [ name |-> <<"t">>,
    columns |-> << Column(<<"i","d">>, <<"I","N","T">>, FALSE, FALSE),
                   Column(<<"n","a","m","e">>, <<"T","E","X","T">>,
                          FALSE, FALSE) >>,
    rows |-> rows ]
RowsT ==
  { <<Val(1), Val(1)>>, <<Val(2), NULL>>, <<Val(2), Val(1)>>, <<NULL, NULL>> }

\* CREATE TABLE u (k INTEGER PRIMARY KEY NOT NULL, x float), whose i-th row
\* is (i, xs[i])
TableU(xs) ==
  [ name |-> <<"u">>,
    columns |-> << Column(<<"k">>, <<"I","N","T","E","G","E","R">>, TRUE, TRUE),
                   Column(<<"x">>, <<"f","l","o","a","t">>, FALSE, FALSE) >>,
    rows |-> [ i \in 1..Len(xs) |-> <<Val(i), xs[i]>> ] ]
ValuesU == { NULL, Val(0), Val(2) }

\* CREATE TABLE sqliteboard (x REAL), of one row
Sqliteboard ==
  [ name |-> <<"s","q","l","i","t","e","b","o","a","r","d">>,
    columns |-> << Column(<<"x">>, <<"R","E","A","L">>, FALSE, FALSE) >>,
    rows |-> << <<Val(1)>> >> ]

\* sqlite_sequence(name, seq), the table SQLite keeps for AUTOINCREMENT
SqliteSequence ==
  [ name |-> <<"s","q","l","i","t","e","_","s","e","q","u","e","n","c","e">>,
    columns |-> << Column(<<"n","a","m","e">>, <<>>, FALSE, FALSE),
                   Column(<<"s","e","q">>, <<>>, FALSE, FALSE) >>,
    rows |-> << <<Val(1), Val(1)>> >> ]

TablesT(n) == { TableT(rows) : rows \in Seqs(RowsT, n) }
TablesU(n) == { TableU(xs) : xs \in Seqs(ValuesU, n) }

\* the catalogs: no table, one table, or a table with a second one before
\* or after it, every table of at most n rows
StoresOf(n) ==
  { <<>> } \cup
  { <<table>> : table \in TablesT(n) \cup TablesU(n) } \cup
  { <<table, Sqliteboard>> : table \in TablesT(n) } \cup
  { <<SqliteSequence, table>> : table \in TablesU(n) } \cup
  { <<TableU(<<Val(2)>>), table>> : table \in TablesT(1) } \cup
  { <<table, TableU(<<Val(2)>>)>> : table \in TablesT(1) }

Stores == StoresOf(MaxTableRows)

\* the table names asked for: t, u, sqliteboard and m
TableNames ==
  { <<"t">>, <<"u">>, <<"s","q","l","i","t","e","b","o","a","r","d">>, <<"m">> }

(***************************************************************************)
(* The statistics engine and the schema text taken alone.                  *)
(***************************************************************************)
SInit ==
  /\ db \in Stores
  /\ table_name \in TableNames
  /\ column_stats = StatsNotCalled
  /\ quality_metrics = MetricsNotCalled
  /\ schema_texts = <<>>
  /\ VIdle
  /\ DIdle
  /\ QIdle
  /\ MIdle
  /\ GIdle
  /\ XIdle

\* get_column_statistics(table_name) is called
GetColumnStatistics ==
  /\ column_stats = StatsNotCalled
  /\ column_stats' = get_column_statistics(db, table_name)
  /\ UNCHANGED <<db, table_name, quality_metrics, schema_texts>>
  /\ UNCHANGED <<vvars, dvars, qvars, mvars, gvars, xvars>>

\* get_data_quality_metrics(table_name) is called
GetDataQualityMetrics ==
  /\ quality_metrics = MetricsNotCalled
  /\ quality_metrics' = get_data_quality_metrics(db, table_name)
  /\ UNCHANGED <<db, table_name, column_stats, schema_texts>>
  /\ UNCHANGED <<vvars, dvars, qvars, mvars, gvars, xvars>>

\* get_schema_as_text() is called
GetSchemaAsText ==
  /\ Len(schema_texts) < MaxTextCalls
  /\ schema_texts' = Append(schema_texts, get_schema_as_text(db))
  /\ UNCHANGED <<db, table_name, column_stats, quality_metrics>>
  /\ UNCHANGED <<vvars, dvars, qvars, mvars, gvars, xvars>>

SNext == GetColumnStatistics \/ GetDataQualityMetrics \/ GetSchemaAsText

SpecStore == SInit /\ [][SNext]_vars


(***************************************************************************)
(* Properties of the statistics engine and of the schema text.             *)
(***************************************************************************)
StatsCalled == column_stats # StatsNotCalled
MetricsCalled == quality_metrics # MetricsNotCalled

\* the tables the schema snapshot holds under the name asked for
InSchema == matching(get_schema(db), table_name)

\* C12 as stated: get_column_statistics and get_data_quality_metrics both
\* fail with TableNotFound for a table that the schema snapshot does not
\* hold.
C12_StatsFailWithTableNotFound ==
  InSchema = {} =>
    /\ StatsCalled => column_stats.raised = "TableNotFound"
    /\ MetricsCalled => quality_metrics.raised = "TableNotFound"

\* C12 amended: for a table that the schema snapshot does not hold,
\* get_column_statistics returns the empty list and
\* get_data_quality_metrics the empty dict, and neither fails.
C12_StatsEmptyForAbsentTable ==
  InSchema = {} =>
    /\ StatsCalled => column_stats = [ raised |-> "", stats |-> <<>> ]
    /\ MetricsCalled => quality_metrics = NoMetrics

\* both have been called for a table that a store of some tables lacks
C12_Witness ==
  /\ InSchema = {}
  /\ db # <<>>
  /\ StatsCalled
  /\ MetricsCalled

\* the table asked for, when the schema holds it
TheTable == table_of(db, table_name)

\* C19: for a table of no rows get_data_quality_metrics returns
\* completeness 100 and unique_ratio 1 and does not fail with a division
\* by zero.
C19_EmptyTableMetrics ==
  (MetricsCalled /\ InSchema # {} /\ TheTable.rows = <<>>) =>
    /\ quality_metrics.raised = ""
    /\ ~quality_metrics.empty
    /\ quality_metrics.completeness = 100 * 100
    /\ quality_metrics.unique_ratio = 1 * 10000

\* the metrics of an empty table have been computed
C19_Witness ==
  /\ MetricsCalled
  /\ InSchema # {}
  /\ TheTable.rows = <<>>
  /\ quality_metrics.completeness = 10000

\* the table of the example: (id INT, name TEXT) with the rows (1,'a'),
\* (2,NULL), (2,'a')
ExampleTable ==
  TableT(<< <<Val(1), Val(1)>>, <<Val(2), NULL>>, <<Val(2), Val(1)>> >>)

\* C20: null_count of get_data_quality_metrics is the sum of the null
\* counts get_column_statistics reports per column, and completeness is
\* (row_count * column_count - null_count) / (row_count * column_count)
\* * 100, to 2 places; the example table gives null_count 1 and
\* completeness 83.33.
C20_NullCountAndCompleteness ==
  (StatsCalled /\ MetricsCalled /\ InSchema # {}) =>
    LET stats == column_stats.stats
        nulls == Sum([ c \in 1..Len(stats) |-> stats[c].null_count ])
        cells == Len(TheTable.rows) * Len(TheTable.columns)
    IN /\ quality_metrics.null_count = nulls
       /\ Len(stats) = Len(TheTable.columns)
       /\ cells > 0 =>
            /\ quality_metrics.completeness * cells
                 >= (cells - nulls) * 10000 - cells \div 2
            /\ quality_metrics.completeness * cells
                 <= (cells - nulls) * 10000 + cells \div 2
       /\ TheTable = ExampleTable =>
            /\ quality_metrics.null_count = 1
            /\ quality_metrics.completeness = 8333

\* both have been called on the example table
C20_Witness ==
  /\ StatsCalled
  /\ MetricsCalled
  /\ InSchema # {}
  /\ TheTable = ExampleTable

\* the lines of a text
RECURSIVE Lines(_)
Lines(text) ==
  LET breaks == { i \in 1..Len(text) : text[i] = "\n" }
  IN IF breaks = {} THEN <<text>>
     ELSE <<SubSeq(text, 1, Min(breaks) - 1)>>
            \o Lines(SubSeq(text, Min(breaks) + 1, Len(text)))

\* the lines of a schema text that describe a table or a column
DescribingLines(text) ==
  SelectSeq(Lines(text),
            LAMBDA line : \/ startswith(line, <<"T","a","b","l","e",":"," ">>)
                          \/ startswith(line, <<" "," ","-"," ">>))

\* the line the claim gives for a table of the store
TableLine(table) ==
  <<"T","a","b","l","e",":"," ">> \o table.name \o <<" ","(">>
    \o int_to_str(Len(table.rows)) \o <<" ","r","o","w","s",")">>

\* the line the claim gives for a column of the store
ColumnLine(col) ==
  <<" "," ","-"," ">> \o col.name \o <<":"," ">> \o col.type
    \o (IF col.notnull THEN <<" ","(","n","o","t"," ","n","u","l","l",")">>
        ELSE <<" ","(","n","u","l","l","a","b","l","e",")">>)
    \o (IF col.pk THEN <<" ","[","P","R","I","M","A","R","Y"," ","K","E","Y","]">>
        ELSE <<>>)

\* the describing lines of the store's tables, catalog order, declaration
\* order
ExpectedLines(d) ==
  Flatten([ i \in 1..Len(listed(d)) |->
            <<TableLine(listed(d)[i])>> \o
            [ c \in 1..Len(listed(d)[i].columns) |->
              ColumnLine(listed(d)[i].columns[c]) ] ])

\* C17: all calls of get_schema_as_text against the same schema return the
\* same text, and that text has, for each table in catalog order, the line
\* 'Table: <name> (<row_count> rows)' followed by one line
\* '  - <name>: <type> (nullable|not null)' per column in declaration
\* order, with ' [PRIMARY KEY]' appended exactly for primary-key columns.
C17_SchemaTextDeterministic ==
  \A i \in 1..Len(schema_texts) :
    /\ schema_texts[i] = schema_texts[1]
    /\ DescribingLines(schema_texts[i]) = ExpectedLines(db)

\* the text was taken twice of a store of two tables, one with a primary
\* key
C17_Witness ==
  /\ Len(schema_texts) = 2
  /\ Len(listed(db)) = 2
  /\ \E i \in 1..2 : \E c \in 1..Len(listed(db)[i].columns) :
       listed(db)[i].columns[c].pk

(***************************************************************************)
(* One request to POST /api/summarize: summarize_data, summarize.py lines  *)
(* 60-138.                                                                 *)
(***************************************************************************)
\* the stores a summarize request may find
SumStores == StoresOf(MaxSumRows)

\* request.table_name
SumTableNames ==
  TableNames \cup { <<"s","q","l","i","t","e","_","s","e","q","u","e","n","c","e">> }

\* the requests
SumRequests ==
  [ table_name : SumTableNames, include_sample_data : BOOLEAN,
    sample_size : { SampleSizeMin, SampleSizeMax } ]

\* the texts the provider may return to the summary prompt
SumResponses ==
  { \* {"summary": "s", "insights": ["i"]}
    <<"{","\"","s","u","m","m","a","r","y","\"",":"," ","\"","s","\"",",",
      " ","\"","i","n","s","i","g","h","t","s","\"",":"," ","[","\"",
      "i","\"","]","}">>,
    \* {"insights": ["i"]}
    <<"{","\"","i","n","s","i","g","h","t","s","\"",":"," ","[","\"","i",
      "\"","]","}">>,
    \* {"summary": null}
    <<"{","\"","s","u","m","m","a","r","y","\"",":"," ","n","u","l","l",
      "}">>,
    \* {"summary": "s", "insights": [1]}
    <<"{","\"","s","u","m","m","a","r","y","\"",":"," ","\"","s","\"",",",
      " ","\"","i","n","s","i","g","h","t","s","\"",":"," ","[","1",
      "]","}">>,
    \* {"summary": "s", "insights": "i"}
    <<"{","\"","s","u","m","m","a","r","y","\"",":"," ","\"","s","\"",",",
      " ","\"","i","n","s","i","g","h","t","s","\"",":"," ","\"","i",
      "\"","}">>,
    \* ok
    <<"o","k">>,
    \* {ok}
    <<"{","o","k","}">> }

\* lines 77-84: a table that does not exist
table_not_found(name, available_tables) ==
  [ Failed(404, "TABLE_NOT_FOUND",
           Message("Table '{request.table_name}' not found", name),
           available_tables)
    EXCEPT !.data = NoSumData ]

\* lines 130-138: any exception but HTTPException becomes INTERNAL_ERROR
SumInternalError(e) == [ InternalError(e) EXCEPT !.data = NoSumData ]

\* line 94: str() of the StopIteration that next() raises on an exhausted
\* generator
StopIterationText == <<>>

\* SummarizeResponse, responses.py lines 80-96: summary is a str and
\* insights a list of str; DataQualityMetrics needs its fields
response_valid(locals, summary, insights) ==
  /\ ~locals.quality_metrics.empty
  /\ summary.t = "str"
  /\ insights.t = "list"
  /\ \A i \in 1..Len(insights.v) : insights.v[i].t = "str"

MInit ==
  /\ db \in SumStores
  /\ sum_request \in SumRequests
  /\ sum_pc = "start"
  /\ sum_locals = NoLocals
  /\ sum_response = <<>>
  /\ sum_outcome = NoSumOutcome
  /\ sum_steps = <<>>
  /\ table_name = <<>>
  /\ column_stats = StatsNotCalled
  /\ quality_metrics = MetricsNotCalled
  /\ schema_texts = <<>>
  /\ VIdle
  /\ DIdle
  /\ QIdle
  /\ GIdle
  /\ XIdle

\* lines 75-84: table_exists is false and the request ends with
\* TABLE_NOT_FOUND and the names get_table_names gives
SumTableNotFound ==
  /\ sum_pc = "start"
  /\ ~table_exists(db, sum_request.table_name)
  /\ sum_pc' = "done"
  /\ sum_steps' = Append(sum_steps, "table_exists")
  /\ sum_outcome' =
       table_not_found(sum_request.table_name, get_table_names(db))
  /\ UNCHANGED <<sum_request, sum_locals, sum_response>>
  /\ UNCHANGED <<vvars, dvars, qvars, svars, gvars, xvars>>

\* line 75: table_exists is true
SumTableFound ==
  /\ sum_pc = "start"
  /\ table_exists(db, sum_request.table_name)
  /\ sum_pc' = "exists"
  /\ sum_steps' = Append(sum_steps, "table_exists")
  /\ UNCHANGED <<sum_request, sum_locals, sum_response, sum_outcome>>
  /\ UNCHANGED <<vvars, dvars, qvars, svars, gvars, xvars>>

\* lines 75-100: the store cannot be read and a call of db raises
SumStoreFails ==
  /\ sum_pc \in {"start", "exists"}
  /\ sum_pc' = "done"
  /\ sum_steps' = Append(sum_steps, "store_failed")
  /\ sum_outcome' = SumInternalError(StoreUnavailable)
  /\ UNCHANGED <<sum_request, sum_locals, sum_response>>
  /\ UNCHANGED <<vvars, dvars, qvars, svars, gvars, xvars>>

\* lines 89-100: the statistics, the metrics, the row count of the table's
\* entry in the schema, and the sample
SumGather ==
  /\ sum_pc = "exists"
  /\ sum_steps' = Append(sum_steps, "gather")
  /\ LET name == sum_request.table_name
         stats == get_column_statistics(db, name)
         metrics == get_data_quality_metrics(db, name)
         schema == get_schema(db)
         found == matching(schema, name)
         sample == IF sum_request.include_sample_data
                   THEN get_table_sample(db, name, sum_request.sample_size)
                   ELSE [ raised |-> "", rows |-> <<>> ]
     IN IF stats.raised # ""
        THEN /\ sum_pc' = "done"
             /\ sum_outcome' = SumInternalError(<<stats.raised>>)
             /\ UNCHANGED sum_locals
        ELSE IF metrics.raised # ""
        THEN /\ sum_pc' = "done"
             /\ sum_outcome' = SumInternalError(<<metrics.raised>>)
             /\ UNCHANGED sum_locals
        ELSE IF found = {}
        THEN /\ sum_pc' = "done"
             /\ sum_outcome' = SumInternalError(StopIterationText)
             /\ UNCHANGED sum_locals
        ELSE IF sample.raised # ""
        THEN /\ sum_pc' = "done"
             /\ sum_outcome' = SumInternalError(<<sample.raised>>)
             /\ UNCHANGED sum_locals
        ELSE /\ sum_pc' = "gathered"
             /\ sum_locals' =
                  [ column_stats |-> stats.stats,
                    quality_metrics |-> metrics,
                    row_count |-> schema.tables[Min(found)].row_count,
                    sample_data |->
                      [ set |-> sum_request.include_sample_data,
                        rows |-> sample.rows ] ]
             /\ UNCHANGED sum_outcome
  /\ UNCHANGED <<sum_request, sum_response>>
  /\ UNCHANGED <<vvars, dvars, qvars, svars, gvars, xvars>>

\* llm.py line 301: provider.generate returns a text
SumGenerate ==
  /\ sum_pc = "gathered"
  /\ \E text \in SumResponses : sum_response' = text
  /\ sum_pc' = "have_response"
  /\ sum_steps' = Append(sum_steps, "model")
  /\ UNCHANGED <<sum_request, sum_locals, sum_outcome>>
  /\ UNCHANGED <<vvars, dvars, qvars, svars, gvars, xvars>>

\* llm.py line 301: provider.generate raises
SumGenerateFails ==
  /\ sum_pc = "gathered"
  /\ sum_pc' = "done"
  /\ sum_steps' = Append(sum_steps, "model")
  /\ \E e \in {ModelUnavailable, ModelError} :
       sum_outcome' = SumInternalError(e)
  /\ UNCHANGED <<sum_request, sum_locals, sum_response>>
  /\ UNCHANGED <<vvars, dvars, qvars, svars, gvars, xvars>>

\* summarize.py lines 103-126: what summarize_data does with the result
\* of llm.summarize_data
summarized(locals, result) ==
  IF result.raised # "" THEN SumInternalError(<<result.raised>>)
  ELSE IF ~response_valid(locals, result.val.summary, result.val.insights)
  THEN SumInternalError(<<"ValidationError">>)
  ELSE [ Responded(NoData) EXCEPT
           !.data = [ locals |-> locals,
                      summary |-> result.val.summary.v,
                      insights |-> result.val.insights.v ] ]

\* llm.py lines 303-318 and summarize.py lines 113-126: the response is
\* decoded and the SummarizeResponse built
SumRespond ==
  /\ sum_pc = "have_response"
  /\ sum_pc' = "done"
  /\ sum_steps' = Append(sum_steps, "respond")
  /\ sum_outcome' = summarized(sum_locals, decode_summary(sum_response))
  /\ UNCHANGED <<sum_request, sum_locals, sum_response>>
  /\ UNCHANGED <<vvars, dvars, qvars, svars, gvars, xvars>>

MNext ==
  \/ SumTableNotFound
  \/ SumTableFound
  \/ SumStoreFails
  \/ SumGather
  \/ SumGenerate
  \/ SumGenerateFails
  \/ SumRespond

SpecSummarize == MInit /\ [][MNext]_vars

(***************************************************************************)
(* Properties of the summarize endpoint.                                   *)
(***************************************************************************)
\* the request is for a table that get_schema does not report
SumAbsent == matching(get_schema(db), sum_request.table_name) = {}

\* a call of the store has raised
SumStoreRaised == Count(sum_steps, "store_failed") > 0

\* C11: a summarize request for a table name that is absent from the
\* schema ends, when the store can be read, with 404 TABLE_NOT_FOUND and
\* details that list the names get_table_names reports, and with no other
\* error and no response.
C11_AbsentTableNotFound ==
  (sum_pc = "done" /\ SumAbsent /\ ~SumStoreRaised) =>
    /\ sum_outcome.kind = "error"
    /\ sum_outcome.status = 404
    /\ sum_outcome.error_code = "TABLE_NOT_FOUND"
    /\ "details" \in sum_outcome.keys
    /\ sum_outcome.details = get_table_names(db)

(***************************************************************************)
(* The two endpoints together: a request to /api/query or one to           *)
(* /api/summarize.                                                         *)
(***************************************************************************)
RInit == QInit \/ MInit

RNext == Next \/ MNext

SpecRequests == RInit /\ [][RNext]_vars

\* the kind of failure a request to /api/query has ended with, from the
\* exception raised and the step that ended the request
QueryFailureKind ==
  IF outcome.kind # "error" THEN "none"
  ELSE IF outcome.message.arg = StoreUnavailable THEN "store_unavailable"
  ELSE IF outcome.message.arg \in {ModelUnavailable, ModelError}
  THEN "model"
  ELSE IF outcome.message.arg = StoreRejects THEN "execution_error"
  ELSE IF /\ steps[Len(steps)] = "validate"
          /\ generated_sql.t = "str"
          /\ ~startswith(strip(upper(generated_sql.v)), SELECT)
  THEN "not_a_select"
  ELSE "other"

\* the same for a request to /api/summarize
SumFailureKind ==
  IF sum_outcome.kind # "error" THEN "none"
  ELSE IF sum_outcome.message.arg = StoreUnavailable
  THEN "store_unavailable"
  ELSE IF sum_outcome.message.arg \in {ModelUnavailable, ModelError}
  THEN "model"
  ELSE IF /\ sum_steps = <<"table_exists">>
          /\ ~table_exists(db, sum_request.table_name)
  THEN "table_not_found"
  ELSE "other"

\* the failure kinds the claim names
NamedKinds ==
  { "store_unavailable", "model", "not_a_select", "table_not_found",
    "execution_error" }

\* the error codes the handlers give to the failures of each kind
CodesOfKind ==
  [ store_unavailable |->
      { InternalError(StoreUnavailable).error_code,
        SumInternalError(StoreUnavailable).error_code,
        execution_failed(StoreUnavailable, <<>>).error_code },
    model |->
      { InternalError(e).error_code : e \in {ModelUnavailable, ModelError} },
    not_a_select |-> { validate(<<>>, LimitMin).error },
    table_not_found |-> { table_not_found(<<>>, <<>>).error_code },
    execution_error |-> { execution_failed(StoreRejects, <<>>).error_code } ]

\* an error is a (code, message, details) triple, and its code is the one
\* code of its kind and the code of no other kind
TripleWithCodeOfKind(o, kind) ==
  (o.kind = "error" /\ kind \in NamedKinds) =>
    /\ o.keys = {"error_code", "message", "details"}
    /\ CodesOfKind[kind] = {o.error_code}
    /\ \A other \in NamedKinds \ {kind} : o.error_code \notin CodesOfKind[other]

DomainCodes ==
  { "SQL_GENERATION_FAILED", "INVALID_SQL_TYPE", "TABLE_NOT_FOUND",
    "QUERY_EXECUTION_FAILED" }

\* an error has a code and a message; it has details exactly when its code
\* is a domain code, and its code is INTERNAL_ERROR otherwise
CodeAndMessage(o) ==
  o.kind = "error" =>
    /\ {"error_code", "message"} \subseteq o.keys
    /\ o.error_code # ""
    /\ o.message.text # ""
    /\ o.error_code \in DomainCodes \cup {"INTERNAL_ERROR"}
    /\ o.error_code \in DomainCodes <=> "details" \in o.keys
    /\ o.error_code = "INTERNAL_ERROR" <=> o.status = 500

Threads == 1..NThreads

\* the arguments a call selects: the provider, or the path of the store
ConfigsOf(fn) ==
  IF fn = "get_llm_service" THEN {"openai", "ollama"}
  ELSE {"./data/sample.db", "./data/other.db"}

Getters == {"get_llm_service", "get_database_service"}

\* the calls begun so far
Begun ==
  Len(SelectSeq(returned, LAMBDA r : r.fn \in Getters))
    + Cardinality({ t \in Threads : callers[t].pc # "idle" })

GInit ==
  /\ llm_service = NoInstance
  /\ db_service = NoInstance
  /\ callers = [ t \in Threads |-> NotCalling ]
  /\ returned = <<>>
  /\ next_id = 1
  /\ VIdle
  /\ DIdle
  /\ QIdle
  /\ SIdle
  /\ MIdle
  /\ XIdle

\* a thread enters get_llm_service or get_database_service
Call(t) ==
  /\ callers[t].pc = "idle"
  /\ Begun < MaxCalls
  /\ \E fn \in Getters : \E config \in ConfigsOf(fn) :
       callers' = [ callers EXCEPT
                      ![t] = [ pc |-> "test", fn |-> fn, config |-> config ] ]
  /\ UNCHANGED <<llm_service, db_service, returned, next_id>>
  /\ UNCHANGED <<vvars, dvars, qvars, svars, mvars, xvars>>

\* the global a getter keeps
global_of(fn) == IF fn = "get_llm_service" THEN llm_service ELSE db_service

\* llm.py line 344, database.py line 246: `if _service is None`
TestGlobal(t) ==
  /\ callers[t].pc = "test"
  /\ callers' = [ callers EXCEPT
                    ![t].pc = IF global_of(callers[t].fn) = NoInstance
                              THEN "construct" ELSE "return" ]
  /\ UNCHANGED <<llm_service, db_service, returned, next_id>>
  /\ UNCHANGED <<vvars, dvars, qvars, svars, mvars, xvars>>

\* llm.py lines 345-350, database.py line 247: a new instance is built from
\* the arguments and assigned to the global
Construct(t) ==
  /\ callers[t].pc = "construct"
  /\ LET instance == [ id |-> next_id, config |-> callers[t].config ] IN
     IF callers[t].fn = "get_llm_service"
     THEN llm_service' = instance /\ UNCHANGED db_service
     ELSE db_service' = instance /\ UNCHANGED llm_service
  /\ next_id' = next_id + 1
  /\ callers' = [ callers EXCEPT ![t].pc = "return" ]
  /\ UNCHANGED returned
  /\ UNCHANGED <<vvars, dvars, qvars, svars, mvars, xvars>>

\* llm.py line 352, database.py line 248: `return _service` reads the
\* global
Return(t) ==
  /\ callers[t].pc = "return"
  /\ returned' = Append(returned,
                        [ fn |-> callers[t].fn,
                          config |-> callers[t].config,
                          instance |-> global_of(callers[t].fn) ])
  /\ callers' = [ callers EXCEPT ![t] = NotCalling ]
  /\ UNCHANGED <<llm_service, db_service, next_id>>
  /\ UNCHANGED <<vvars, dvars, qvars, svars, mvars, xvars>>

\* reset_llm_service, llm.py lines 355-358
ResetLlm ==
  /\ Len(SelectSeq(returned, LAMBDA r : r.fn = "reset_llm_service"))
       < MaxResets
  /\ llm_service' = NoInstance
  /\ returned' = Append(returned,
                        [ fn |-> "reset_llm_service", config |-> "",
                          instance |-> NoInstance ])
  /\ UNCHANGED <<db_service, callers, next_id>>
  /\ UNCHANGED <<vvars, dvars, qvars, svars, mvars, xvars>>

GNext ==
  \/ \E t \in Threads : Call(t)
  \/ \E t \in Threads : TestGlobal(t)
  \/ \E t \in Threads : Construct(t)
  \/ \E t \in Threads : Return(t)
  \/ ResetLlm

SpecSingleton == GInit /\ [][GNext]_vars

(***************************************************************************)
(* Properties of the singletons.                                           *)
(***************************************************************************)
\* no reset_llm_service lies between the entries i and j of the history
NoResetBetween(i, j) ==
  \A k \in i..j : returned[k].fn # "reset_llm_service"

\* entry i is the first return of its getter since the last reset
FirstOfRun(i) ==
  \A h \in 1..(i - 1) :
    returned[h].fn = returned[i].fn => ~NoResetBetween(h, i)

\* C18: with no reset in between, every call of get_llm_service (and
\* likewise of get_database_service) returns the same instance, whose
\* backend or path is the one the first call selected; after
\* reset_llm_service the next call of get_llm_service returns an instance
\* that no earlier call returned.
C18_SingleInstanceReused ==
  \A j \in 1..Len(returned) : returned[j].fn \in Getters =>
    /\ returned[j].instance # NoInstance
    /\ FirstOfRun(j) =>
         /\ returned[j].instance.config = returned[j].config
         /\ \A h \in 1..(j - 1) :
              returned[h].instance.id # returned[j].instance.id
    /\ \A i \in 1..(j - 1) :
         (returned[i].fn = returned[j].fn /\ NoResetBetween(i, j)) =>
           returned[i].instance = returned[j].instance

(***************************************************************************)
(* The validation step applied to its own output.                          *)
(***************************************************************************)
\* C29: the validation step is idempotent: when (vsql, vlimit) is accepted,
\* validating the output again with any limit is accepted and returns the
\* output unchanged.
C29_ValidateIdempotent ==
  (VDone /\ vres.ok) =>
    \A m \in Limits :
      validate(vres.sql, m) = [ ok |-> TRUE, error |-> "", sql |-> vres.sql ]

\* an SQL was accepted and the limit appended to it
C29_Witness ==
  /\ VDone
  /\ vres.ok
  /\ vres.sql = rstrip(vsql, {";"}) \o LimitSuffix(vlimit)
  /\ vlimit # LimitMin

(***************************************************************************)
(* The order of the tiers of generate_sql.                                 *)
(***************************************************************************)
\* the structured tier parsed a JSON object from the text
StructuredProduced ==
  LET m == search_object_flat(dtext) IN
  m.found /\ json_loads(group(dtext, m)).st = "ok"

\* the SELECT-span pattern matches the text
RegexMatched == search_select(dtext).found

\* the result of the last return statement of generate_sql
FailureResult ==
  [ sql |-> PyStr(<<>>), explanation |-> PyStr(FailedExplanation) ]

\* C21: generate_sql applies its tiers in order: when the structured tier
\* parsed an object the result is made of that object, whatever the regex
\* would match; the SELECT span is the result only when the structured tier
\* parsed no object and the regex matched; the empty-SQL failure result is
\* returned only when the structured tier parsed no object and the regex
\* did not match.
C21_TiersInOrder ==
  (DDone /\ dpath = "sql" /\ dres.raised = "") =>
    /\ dres.tier \in {"json", "regex", "fail"}
    /\ StructuredProduced <=> dres.tier = "json"
    /\ dres.tier = "json" =>
         dres.val.sql = FieldOr(TheObject, K_sql, PyStr(<<>>))
    /\ (~StructuredProduced /\ RegexMatched) <=> dres.tier = "regex"
    /\ dres.tier = "regex" =>
         dres.val.sql
           = PyStr(strip(group(dtext, search_select(dtext))))
    /\ (~StructuredProduced /\ ~RegexMatched) <=> dres.tier = "fail"
    /\ dres.tier = "fail" => dres.val = FailureResult

\* the structured tier parsed an object from a text that the regex matches
\* too, and the result is the object's
C21_Witness ==
  /\ DDone
  /\ dpath = "sql"
  /\ StructuredProduced
  /\ RegexMatched
  /\ dres.tier = "json"
  /\ dres.val.sql # PyStr(strip(group(dtext, search_select(dtext))))

(***************************************************************************)
(* Further properties of the statistics engine.                            *)
(***************************************************************************)
\* the rows of the table that occur in it more than once
RepeatedRows(rows) ==
  { row \in { rows[i] : i \in 1..Len(rows) } :
      Cardinality({ i \in 1..Len(rows) : rows[i] = row }) > 1 }

\* no two rows hold the same value in column c
AllDistinct(rows, c) ==
  \A i, j \in 1..Len(rows) : i # j => rows[i][c] # rows[j][c]

NumericStats ==
  { c \in 1..Len(column_stats.stats) : column_stats.stats[c].has_min_max_avg }

\* C23: for a numeric column avg is null exactly when the column has no
\* non-null value; otherwise it is the average of the non-null values to 2
\* places, also when that average is 0.
C23_AvgNullOnlyWhenNoValues ==
  (StatsCalled /\ InSchema # {}) =>
    \A c \in NumericStats :
      LET xs == non_null(TheTable, c)
          total == Sum([ i \in 1..Len(xs) |-> xs[i].v ])
          avg == column_stats.stats[c].avg
      IN /\ avg.null <=> xs = <<>>
         /\ xs # <<>> =>
              /\ avg.v * Len(xs) >= total * 100 - Len(xs) \div 2
              /\ avg.v * Len(xs) <= total * 100 + Len(xs) \div 2

\* a declared type that SQLite takes for numeric: its rules of column
\* affinity, applied to the type in upper case
NumericDeclared(type) ==
  LET u == upper(type) IN
  \/ contains(u, <<"I","N","T">>)
  \/ /\ ~contains(u, <<"C","H","A","R">>)
     /\ ~contains(u, <<"C","L","O","B">>)
     /\ ~contains(u, <<"T","E","X","T">>)
     /\ ~contains(u, <<"B","L","O","B">>)
     /\ u # <<>>

\* C24: get_column_statistics reports min, max and avg for a column exactly
\* when the declared type of the column is numeric, in any letter case.
C24_MinMaxAvgIffNumeric ==
  (StatsCalled /\ InSchema # {}) =>
    \A c \in 1..Len(column_stats.stats) :
      column_stats.stats[c].has_min_max_avg
        <=> NumericDeclared(TheTable.columns[c].type)

(***************************************************************************)
(* The first calls of the getters when they overlap.                       *)
(***************************************************************************)
\* C25: each singleton is initialised once even when first calls overlap:
\* as long as reset_llm_service has not run, a thread that is about to
\* construct an instance finds the global still empty (so at most one
\* instance is constructed for a getter), and all calls of one getter
\* return the same instance.
C25_InitialisedOnce ==
  NoResetBetween(1, Len(returned)) =>
    /\ \A t \in Threads :
         callers[t].pc = "construct" =>
           global_of(callers[t].fn) = NoInstance
    /\ \A i \in 1..Len(returned) : \A j \in 1..Len(returned) :
         returned[i].fn = returned[j].fn =>
           returned[i].instance = returned[j].instance

(***************************************************************************)
(* extract_tables_from_sql taken alone, on statements put together from a  *)
(* few fragments.                                                          *)
(***************************************************************************)
ExtractFrags ==
  { <<"S","E","L","E","C","T"," ">>,
    <<"U","s","e","r","s">>,
    <<"u","s","e","r","s">>,
    <<".","i","d">>,
    <<" ","F","R","O","M"," ">>,
    <<" ","j","o","i","n"," ">>,
    <<"u","p","d","a","t","e","\t">>,
    <<"a">> }

ExtractTexts == Texts(ExtractFrags, MaxExtractFrags)

EInit ==
  /\ xsql \in ExtractTexts
  /\ xtables = NotExtracted
  /\ VIdle
  /\ DIdle
  /\ QIdle
  /\ SIdle
  /\ MIdle
  /\ GIdle
  /\ CIdle
  /\ WIdle

\* explain.py line 103: tables = extract_tables_from_sql(request.sql_query)
Extract ==
  /\ ~xtables.done
  /\ xtables' = [ done |-> TRUE, tables |-> extract_tables_from_sql(xsql) ]
  /\ UNCHANGED xsql
  /\ UNCHANGED <<vvars, dvars, qvars, svars, mvars, gvars, cvars, wvars>>

ENext == Extract

SpecExtract == EInit /\ [][ENext]_vars

\* the spans of xsql the patterns match as names: what follows FROM, JOIN,
\* INTO or UPDATE, in any letter case, and white space
MatchedNames ==
  UNION { { findall_keyword(upper(xsql), 1, TableKeywords[p])[n] :
              n \in 1..Len(findall_keyword(upper(xsql), 1, TableKeywords[p])) } :
          p \in 1..Len(TableKeywords) }

\* C26: for every name that follows FROM, JOIN, INTO or UPDATE, the result
\* holds the characters of the statement at the matched position, in the
\* letter case written there.
C26_NameAsWrittenAfterKeyword ==
  xtables.done =>
    \A m \in MatchedNames : group(xsql, m) \in xtables.tables

(***************************************************************************)
(* The operations of DatabaseService and their connections.  Any statement *)
(* may raise (failing SQL, a locked store), and so may sqlite3.connect.    *)
(***************************************************************************)
CInit ==
  /\ workers = [ t \in Threads |-> NoOperation ]
  /\ open_conns = {}
  /\ next_conn = 1
  /\ begun_ops = 0
  /\ VIdle
  /\ DIdle
  /\ QIdle
  /\ SIdle
  /\ MIdle
  /\ GIdle
  /\ EIdle
  /\ WIdle

\* a thread enters an operation of DatabaseService
BeginOp(t) ==
  /\ workers[t].pc = "idle"
  /\ begun_ops < MaxOps
  /\ \E op \in Operations : \E found \in BOOLEAN :
       workers' = [ workers EXCEPT
                      ![t] = [ pc |-> "connect",
                               blocks |-> blocks_of(op, found), conn |-> 0,
                               raised |-> FALSE, opened |-> 0 ] ]
  /\ begun_ops' = begun_ops + 1
  /\ UNCHANGED <<open_conns, next_conn>>
  /\ UNCHANGED <<vvars, dvars, qvars, svars, mvars, gvars, evars, wvars>>

\* lines 30-33: sqlite3.connect gives a new connection, which the block
\* receives
Connect(t) ==
  /\ workers[t].pc = "connect"
  /\ open_conns' = open_conns \cup { [ id |-> next_conn, owner |-> t ] }
  /\ next_conn' = next_conn + 1
  /\ workers' = [ workers EXCEPT ![t].pc = "body",
                                 ![t].conn = next_conn,
                                 ![t].opened = @ + 1 ]
  /\ UNCHANGED begun_ops
  /\ UNCHANGED <<vvars, dvars, qvars, svars, mvars, gvars, evars, wvars>>

\* line 30: sqlite3.connect raises; no connection was made, and the
\* exception leaves the operation
ConnectFails(t) ==
  /\ workers[t].pc = "connect"
  /\ workers' = [ workers EXCEPT ![t].pc = "idle", ![t].blocks = <<>>,
                                 ![t].raised = TRUE ]
  /\ UNCHANGED <<open_conns, next_conn, begun_ops>>
  /\ UNCHANGED <<vvars, dvars, qvars, svars, mvars, gvars, evars, wvars>>

\* a statement of the block is executed on the connection of the block
ExecuteStatement(t) ==
  /\ workers[t].pc = "body"
  /\ workers' = [ workers EXCEPT
                    ![t].blocks = <<Head(@) - 1>> \o Tail(@),
                    ![t].pc = IF Head(workers[t].blocks) = 1
                              THEN "exit" ELSE "body" ]
  /\ UNCHANGED <<open_conns, next_conn, begun_ops>>
  /\ UNCHANGED <<vvars, dvars, qvars, svars, mvars, gvars, evars, wvars>>

\* a statement of the block raises
StatementFails(t) ==
  /\ workers[t].pc = "body"
  /\ workers' = [ workers EXCEPT ![t].raised = TRUE, ![t].pc = "exit" ]
  /\ UNCHANGED <<open_conns, next_conn, begun_ops>>
  /\ UNCHANGED <<vvars, dvars, qvars, svars, mvars, gvars, evars, wvars>>

\* the block is left, lines 34-35; the operation then raises, or goes on to
\* its next block, or returns
ExitConnection(t) ==
  /\ workers[t].pc = "exit"
  /\ open_conns' = get_connection_exit(open_conns, workers[t].conn,
                                       workers[t].raised)
  /\ workers' =
       [ workers EXCEPT
           ![t].conn = 0,
           ![t].blocks = IF workers[t].raised THEN <<>> ELSE Tail(@),
           ![t].pc = IF workers[t].raised \/ Tail(workers[t].blocks) = <<>>
                     THEN "idle" ELSE "connect" ]
  /\ UNCHANGED <<next_conn, begun_ops>>
  /\ UNCHANGED <<vvars, dvars, qvars, svars, mvars, gvars, evars, wvars>>

CNext ==
  \/ \E t \in Threads : BeginOp(t)
  \/ \E t \in Threads : Connect(t)
  \/ \E t \in Threads : ConnectFails(t)
  \/ \E t \in Threads : ExecuteStatement(t)
  \/ \E t \in Threads : StatementFails(t)
  \/ \E t \in Threads : ExitConnection(t)

SpecConnections == CInit /\ [][CNext]_vars

\* C27: every connection an operation opened is closed when the operation
\* has returned or raised, and no connection is shared: an open connection
\* is held by the thread that opened it, inside the block that opened it,
\* and by no other thread.
C27_ConnectionsClosedNotShared ==
  \A c \in open_conns :
    /\ workers[c.owner].pc \in {"body", "exit"}
    /\ workers[c.owner].conn = c.id
    /\ \A u \in Threads \ {c.owner} : workers[u].conn # c.id

\* an operation raised in its second block, having opened two connections,
\* while the operation of another thread has a connection open
C27_Witness ==
  /\ \E t \in Threads :
       /\ workers[t].pc = "idle"
       /\ workers[t].raised
       /\ workers[t].opened = 2
  /\ open_conns # {}

(***************************************************************************)
(* The statistics of one summarize request, summarize.py lines 88-95,      *)
(* statement by statement, while other connections insert and delete rows  *)
(* of the table.  No statement of DatabaseService opens a transaction, so  *)
(* each one reads the rows the table holds when it runs.                   *)
(***************************************************************************)
\* CREATE TABLE t (id INTEGER, name TEXT), with the rows given
WriterTable(rows) ==
  [ TableT(rows) EXCEPT !.columns[1].type = <<"I","N","T","E","G","E","R">> ]

\* the columns PRAGMA table_info gives
WriterColumns == get_table_info(WriterTable(<<>>)).columns

WInit ==
  /\ wrows \in Seqs(RowsT, 1)
  /\ wseen = {wrows}
  /\ writes = 0
  /\ wpc = [ at |-> "stats_schema", col |-> 0 ]
  /\ wlocals = NothingRead
  /\ VIdle
  /\ DIdle
  /\ QIdle
  /\ SIdle
  /\ MIdle
  /\ GIdle
  /\ EIdle
  /\ CIdle

\* another connection inserts a row
WriterInsert ==
  /\ wpc.at # "done"
  /\ writes < MaxWrites
  /\ Len(wrows) < MaxWriterRows
  /\ \E row \in RowsT : wrows' = Append(wrows, row)
  /\ wseen' = wseen \cup {wrows'}
  /\ writes' = writes + 1
  /\ UNCHANGED <<wpc, wlocals>>
  /\ UNCHANGED <<vvars, dvars, qvars, svars, mvars, gvars, evars, cvars>>

\* another connection deletes a row
WriterDelete ==
  /\ wpc.at # "done"
  /\ writes < MaxWrites
  /\ \E i \in 1..Len(wrows) :
       wrows' = SubSeq(wrows, 1, i - 1) \o SubSeq(wrows, i + 1, Len(wrows))
  /\ wseen' = wseen \cup {wrows'}
  /\ writes' = writes + 1
  /\ UNCHANGED <<wpc, wlocals>>
  /\ UNCHANGED <<vvars, dvars, qvars, svars, mvars, gvars, evars, cvars>>

\* the statement after those of column c of get_column_statistics
after_column(c) ==
  IF c < Len(WriterColumns)
  THEN [ at |-> "stats_null", col |-> c + 1 ]
  ELSE [ at |-> "metrics_schema", col |-> 0 ]

\* database.py line 125: get_schema in get_column_statistics
StatsSchema ==
  /\ wpc.at = "stats_schema"
  /\ wpc' = [ at |-> "stats_null", col |-> 1 ]
  /\ UNCHANGED <<wrows, wseen, writes, wlocals>>
  /\ UNCHANGED <<vvars, dvars, qvars, svars, mvars, gvars, evars, cvars>>

\* lines 146-147: the null count of a column
StatsNull ==
  /\ wpc.at = "stats_null"
  /\ wlocals' =
       [ wlocals EXCEPT
           !.stats = Append(@, [ null_count |-> count_null(WriterTable(wrows), wpc.col),
                                 distinct_count |-> 0,
                                 mma |-> [ min |-> NULL, max |-> NULL,
                                           avg |-> NULL ] ]) ]
  /\ wpc' = [ wpc EXCEPT !.at = "stats_distinct" ]
  /\ UNCHANGED <<wrows, wseen, writes>>
  /\ UNCHANGED <<vvars, dvars, qvars, svars, mvars, gvars, evars, cvars>>

\* lines 150-154: the distinct count of the column, and whether the column
\* is numeric
StatsDistinct ==
  /\ wpc.at = "stats_distinct"
  /\ wlocals' =
       [ wlocals EXCEPT
           !.stats[wpc.col].distinct_count =
              count_distinct(WriterTable(wrows), wpc.col) ]
  /\ wpc' = IF upper(WriterColumns[wpc.col].type) \in NumericTypes
            THEN [ wpc EXCEPT !.at = "stats_min_max_avg" ]
            ELSE after_column(wpc.col)
  /\ UNCHANGED <<wrows, wseen, writes>>
  /\ UNCHANGED <<vvars, dvars, qvars, svars, mvars, gvars, evars, cvars>>

\* lines 155-162: min, max and avg of a numeric column
StatsMinMaxAvg ==
  /\ wpc.at = "stats_min_max_avg"
  /\ wlocals' =
       [ wlocals EXCEPT
           !.stats[wpc.col].mma = min_max_avg(WriterTable(wrows), wpc.col) ]
  /\ wpc' = after_column(wpc.col)
  /\ UNCHANGED <<wrows, wseen, writes>>
  /\ UNCHANGED <<vvars, dvars, qvars, svars, mvars, gvars, evars, cvars>>

\* line 170: get_schema in get_data_quality_metrics, whose row count
\* table_info keeps
MetricsSchema ==
  /\ wpc.at = "metrics_schema"
  /\ wlocals' = [ wlocals EXCEPT !.table_info_row_count = Len(wrows) ]
  /\ wpc' = [ at |-> "metrics_null", col |-> 1 ]
  /\ UNCHANGED <<wrows, wseen, writes>>
  /\ UNCHANGED <<vvars, dvars, qvars, svars, mvars, gvars, evars, cvars>>

\* lines 186-188: the null count of a column is added to null_count
MetricsNull ==
  /\ wpc.at = "metrics_null"
  /\ wlocals' =
       [ wlocals EXCEPT
           !.null_count = @ + count_null(WriterTable(wrows), wpc.col) ]
  /\ wpc' = IF wpc.col < Len(WriterColumns)
            THEN [ wpc EXCEPT !.col = @ + 1 ]
            ELSE [ at |-> "metrics_duplicates", col |-> 0 ]
  /\ UNCHANGED <<wrows, wseen, writes>>
  /\ UNCHANGED <<vvars, dvars, qvars, svars, mvars, gvars, evars, cvars>>

\* lines 194-203: the groups of equal rows
MetricsDuplicates ==
  /\ wpc.at = "metrics_duplicates"
  /\ wlocals' =
       [ wlocals EXCEPT !.duplicate_count = count_duplicates(WriterTable(wrows)) ]
  /\ wpc' = [ wpc EXCEPT !.at = "metrics_distinct" ]
  /\ UNCHANGED <<wrows, wseen, writes>>
  /\ UNCHANGED <<vvars, dvars, qvars, svars, mvars, gvars, evars, cvars>>

\* lines 206-216: the distinct values of the first column, and the dict
\* returned
MetricsDistinct ==
  /\ wpc.at = "metrics_distinct"
  /\ wlocals' =
       [ wlocals EXCEPT
           !.quality_metrics =
              [ raised |-> "",
                empty |-> FALSE,
                completeness |->
                  completeness_of(wlocals.table_info_row_count
                                    * Len(WriterColumns),
                                  wlocals.null_count),
                null_count |-> wlocals.null_count,
                duplicate_count |-> wlocals.duplicate_count,
                unique_ratio |->
                  unique_ratio_of(count_distinct(WriterTable(wrows), 1),
                                  wlocals.table_info_row_count) ] ]
  /\ wpc' = [ wpc EXCEPT !.at = "schema" ]
  /\ UNCHANGED <<wrows, wseen, writes>>
  /\ UNCHANGED <<vvars, dvars, qvars, svars, mvars, gvars, evars, cvars>>

\* summarize.py lines 93-95: get_schema, and the row count of the table
SchemaRowCount ==
  /\ wpc.at = "schema"
  /\ wlocals' = [ wlocals EXCEPT !.row_count = Len(wrows) ]
  /\ wpc' = [ wpc EXCEPT !.at = "done" ]
  /\ UNCHANGED <<wrows, wseen, writes>>
  /\ UNCHANGED <<vvars, dvars, qvars, svars, mvars, gvars, evars, cvars>>

WNext ==
  \/ WriterInsert
  \/ WriterDelete
  \/ StatsSchema
  \/ StatsNull
  \/ StatsDistinct
  \/ StatsMinMaxAvg
  \/ MetricsSchema
  \/ MetricsNull
  \/ MetricsDuplicates
  \/ MetricsDistinct
  \/ SchemaRowCount

SpecWriters == WInit /\ [][WNext]_vars

\* the values read are those of the table with the rows given
Describes(rows) ==
  /\ wlocals.row_count = Len(rows)
  /\ \A c \in 1..Len(WriterColumns) :
       wlocals.stats[c].null_count = count_null(WriterTable(rows), c)
  /\ wlocals.quality_metrics.null_count =
       Sum([ c \in 1..Len(WriterColumns) |-> count_null(WriterTable(rows), c) ])

\* C28: whatever other connections write during the request, completeness
\* is between 0 and 100 and unique_ratio between 0 and 1, and row_count, the
\* null counts of the columns and the null_count of the metrics are those
\* of one state the table was in.
C28_MetricsOfOneState ==
  wpc.at = "done" =>
    /\ wlocals.quality_metrics.completeness \in 0..10000
    /\ wlocals.quality_metrics.unique_ratio \in 0..10000
    /\ \E rows \in wseen : Describes(rows)

====
